---- MODULE Spec2Model ----
(***************************************************************************)
(* Audit logging subsystem of google-ads-api-project:                      *)
(*   project-2/audit_logger.py   AuditLogger, audit_log decorator          *)
(*   project-2/google_ads_sdk/core/base_client.py  handle_exception        *)
(*   project-2/google_ads_sdk/managers/*.py        audited manager methods *)
(*   main.py                     dashboard actions on st.session_state     *)
(*                                                                         *)
(* Python values are records [tag, lit, kids]; JSON text is represented by *)
(* the document tree it denotes, with its own tags, so that json.dumps and *)
(* json.loads are conversions between two different representations.       *)
(***************************************************************************)
EXTENDS Integers, Sequences, FiniteSets, TLC

VARIABLES
    session_state,  \* st.session_state: function from the keys present to their values
    authenticated,  \* st.session_state.authenticated
    ads_sdk,        \* st.session_state.ads_sdk is not None
    env_user_id,    \* os.getenv('GOOGLE_ADS_USER_ID'), PyNone when unset
    now,            \* int(time.time()), also SQLite's CURRENT_TIMESTAMP (seconds)
    audit_logs,     \* table audit_logs: the rows in rowid order
    seq,            \* sqlite_sequence value of the AUTOINCREMENT key
    calls,          \* observation: the calls made so far, with what each returned or raised
    logs,           \* observation: arguments and result of the last get_audit_logs
    stats,          \* observation: the result of the last get_operation_stats
    schema,         \* the store file: columns of table audit_logs and its indexes
    cleared,        \* observation: the last id given when DELETE FROM audit_logs last ran
    threads         \* each thread's position in its log_operation and its uncommitted row

vars ==
    <<session_state, authenticated, ads_sdk, env_user_id, now, audit_logs, seq, calls, logs,
      stats, schema, cleared, threads>>

\* ---------------------------------------------------------------- bounds

MaxCalls == 2
MaxTime == 1
MaxInits == 2

MaxThreads == 2

\* ---------------------------------------------------------------- Python values

\* Python's None where a string is expected (identity values, TEXT columns: SQL NULL).
PyNone == "<None>"

\* SQL NULL in the INTEGER column execution_time_ms.
NullInt == -1

Py(tag, lit, kids) == [tag |-> tag, lit |-> lit, kids |-> kids]

NoneV == Py("none", "", <<>>)

TrueV == Py("bool", "True", <<>>)

FalseV == Py("bool", "False", <<>>)

IntV(lit) == Py("int", lit, <<>>)

StrV(s) == Py("str", s, <<>>)

\* An object json cannot serialize (a service handle, a set, a protobuf message).
ObjV(name) == Py("object", name, <<>>)

Item(k, v) == [k |-> k, v |-> v]

\* A list: the items carry no key.
ListV(vs) == Py("list", "", [i \in 1..Len(vs) |-> Item(NoneV, vs[i])])

\* A dict: the items in insertion order, each key a scalar.
DictV(items) == Py("dict", "", items)

\* bool(v), as in `if parameters` and `if kwargs`.
Truthy(v) ==
    CASE v.tag = "none" -> FALSE
      [] v.tag = "bool" -> v.lit = "True"
      [] v.tag = "int" -> v.lit # "0"
      [] v.tag = "str" -> v.lit # ""
      [] v.tag \in {"list", "dict"} -> v.kids # <<>>
      [] OTHER -> TRUE

\* d.get(key, default) of a dict.
DictGet(d, key, default) ==
    IF \E i \in 1..Len(d.kids) : d.kids[i].k = StrV(key)
    THEN d.kids[CHOOSE i \in 1..Len(d.kids) : d.kids[i].k = StrV(key)].v
    ELSE default

\* ---------------------------------------------------------------- JSON text

Json(tag, lit, kids) == [tag |-> tag, lit |-> lit, kids |-> kids]

\* SQL NULL in a TEXT column that holds JSON.
SqlNull == Json("NULL", "", <<>>)

\* json.dumps raises TypeError on v: an object that is no dict, list or scalar,
\* or a dict key that is none of str, int, bool, None.
RECURSIVE Unserializable(_)
Unserializable(v) ==
    CASE v.tag \in {"none", "bool", "int", "str"} -> FALSE
      [] v.tag = "list" -> \E i \in 1..Len(v.kids) : Unserializable(v.kids[i].v)
      [] v.tag = "dict" ->
            \E i \in 1..Len(v.kids) :
                \/ v.kids[i].k.tag \notin {"none", "bool", "int", "str"}
                \/ Unserializable(v.kids[i].v)
      [] OTHER -> TRUE

\* The text json.dumps gives a dict key: JSON object keys are strings.
KeyText(k) ==
    CASE k.tag = "str" -> k.lit
      [] k.tag = "int" -> k.lit
      [] k.tag = "bool" -> (IF k.lit = "True" THEN "true" ELSE "false")
      [] OTHER -> "null"

\* json.dumps(v) for a serializable v.
RECURSIVE Dumps(_)
Dumps(v) ==
    CASE v.tag = "none" -> Json("null", "", <<>>)
      [] v.tag = "bool" -> Json("bool", IF v.lit = "True" THEN "true" ELSE "false", <<>>)
      [] v.tag = "int" -> Json("number", v.lit, <<>>)
      [] v.tag = "str" -> Json("string", v.lit, <<>>)
      [] v.tag = "list" ->
            Json("array", "", [i \in 1..Len(v.kids) |-> [k |-> "", v |-> Dumps(v.kids[i].v)]])
      [] OTHER ->
            Json("object", "",
                 [i \in 1..Len(v.kids) |-> [k |-> KeyText(v.kids[i].k), v |-> Dumps(v.kids[i].v)]])

\* json.loads(t) for a well-formed text t.
RECURSIVE Loads(_)
Loads(t) ==
    CASE t.tag = "null" -> NoneV
      [] t.tag = "bool" -> (IF t.lit = "true" THEN TrueV ELSE FalseV)
      [] t.tag = "number" -> IntV(t.lit)
      [] t.tag = "string" -> StrV(t.lit)
      [] t.tag = "array" -> Py("list", "", [i \in 1..Len(t.kids) |-> Item(NoneV, Loads(t.kids[i].v))])
      [] OTHER ->
            Py("dict", "", [i \in 1..Len(t.kids) |-> Item(StrV(t.kids[i].k), Loads(t.kids[i].v))])

\* The string literals occurring in a JSON text (keys and string values).
RECURSIVE JsonStrings(_)
JsonStrings(t) ==
    CASE t.tag = "string" -> {t.lit}
      [] t.tag \in {"array", "object"} ->
            UNION {{t.kids[i].k} \cup JsonStrings(t.kids[i].v) : i \in 1..Len(t.kids)}
      [] OTHER -> {}

\* ---------------------------------------------------------------- exceptions

\* An exception object: type(e).__name__, str(e), the attribute `code` when it has
\* one, and the sub-errors of e.failure.errors when it has them.
Exc(type, message, has_code, code, has_failure, errors) ==
    [type |-> type, message |-> message, has_code |-> has_code, code |-> code,
     has_failure |-> has_failure, errors |-> errors]

PlainExc(type, message) == Exc(type, message, FALSE, PyNone, FALSE, <<>>)

\* No exception: the call returned.
NoExc == PlainExc("", "")

\* One entry of failure.errors: its attributes error_code, message, location.
SubError(error_code, message, location) ==
    [message |-> message, error_code |-> error_code, location |-> location]

\* A text column that holds either plain text or a prefix followed by JSON text.
Msg(text, json) == [text |-> text, json |-> json]

NullMsg == Msg(PyNone, SqlNull)

\* ---------------------------------------------------------------- identity resolver

Has(ss, key) == key \in DOMAIN ss

Put(ss, key, value) == [x \in DOMAIN ss \cup {key} |-> IF x = key THEN value ELSE ss[x]]

\* A resolver call: the value returned and st.session_state after the call.
Resolved(ret, ss) == [ss |-> ss, ret |-> ret]

\* A resolver that generates on every call, never reading its cache: C9_Precedence must
\* fail with it.
get_user_id_regenerating(ss) ==
    IF Has(ss, "user_id") THEN Resolved(ss["user_id"], ss)
    ELSE IF env_user_id # PyNone /\ env_user_id # "" THEN Resolved(env_user_id, ss)
    ELSE Resolved("user_" \o ToString(now), Put(ss, "generated_user_id", "user_" \o ToString(now)))

get_user_id(ss) ==
    IF Has(ss, "user_id") THEN Resolved(ss["user_id"], ss)
    ELSE IF env_user_id # PyNone /\ env_user_id # "" THEN Resolved(env_user_id, ss)
    ELSE IF ~Has(ss, "generated_user_id")
         THEN Resolved("user_" \o ToString(now), Put(ss, "generated_user_id", "user_" \o ToString(now)))
         ELSE Resolved(ss["generated_user_id"], ss)

\* st.session_state.get('customer_id', 'unknown'): the default only when the key is missing.
get_customer_id(ss) == IF Has(ss, "customer_id") THEN ss["customer_id"] ELSE "unknown"

\* A resolver that keeps no session id: C10_SessionStable must fail with it.
get_session_id_uncached(ss) ==
    Resolved("session_" \o ToString(now), [x \in DOMAIN ss \ {"session_id"} |-> ss[x]])

get_session_id(ss) ==
    IF ~Has(ss, "session_id")
    THEN Resolved("session_" \o ToString(now), Put(ss, "session_id", "session_" \o ToString(now)))
    ELSE Resolved(ss["session_id"], ss)

\* ---------------------------------------------------------------- record store

\* What one operation reads and writes: the session and the store file.
State(ss, rows, s) == [session_state |-> ss, audit_logs |-> rows, seq |-> s]

Current == State(session_state, audit_logs, seq)

\* The outcome of a call: the state it leaves and the exception it raised (NoExc: none).
Outcome(st, raised) == [st |-> st, raised |-> raised]

OperationalError == PlainExc("OperationalError", "unable to open database file")

\* What the store does with one write: "ok", "connect_fail" (sqlite3.connect raises:
\* the file cannot be opened), "insert_fail" (execute raises: database is locked).
DbOutcomes == {"ok", "connect_fail", "insert_fail"}

\* The keyword arguments of log_operation.
Entry(operation_type, resource_type, function_name, parameters, resource_id, result_status, result_data, error_message, error_type, error_code, stack_trace, execution_time_ms) ==
    [error_code |-> error_code, operation_type |-> operation_type,
     resource_type |-> resource_type, function_name |-> function_name,
     parameters |-> parameters, resource_id |-> resource_id,
     result_status |-> result_status, result_data |-> result_data,
     error_message |-> error_message, error_type |-> error_type,
     stack_trace |-> stack_trace, execution_time_ms |-> execution_time_ms]

\* `json.dumps(x) if x else None`, for an x json can serialize.
JsonColumn(x) == IF Truthy(x) THEN Dumps(x) ELSE SqlNull

\* The row INSERT writes: id from AUTOINCREMENT, timestamp from CURRENT_TIMESTAMP.
Stored(id, timestamp, user_id, customer_id, session_id, a) ==
    [error_code |-> a.error_code, user_id |-> user_id,
     customer_id |-> customer_id, session_id |-> session_id,
     operation_type |-> a.operation_type, resource_type |-> a.resource_type,
     function_name |-> a.function_name, parameters |-> JsonColumn(a.parameters),
     resource_id |-> a.resource_id, result_status |-> a.result_status,
     result_data |-> JsonColumn(a.result_data), error_message |-> a.error_message,
     error_type |-> a.error_type, stack_trace |-> a.stack_trace,
     execution_time_ms |-> a.execution_time_ms, id |-> id,
     timestamp |-> timestamp]

\* The row an INSERT makes now: id from AUTOINCREMENT, timestamp from CURRENT_TIMESTAMP.
Row(id, user_id, customer_id, session_id, a) ==
    Stored(id, now, user_id, customer_id, session_id, a)

\* The NOT NULL columns of CREATE TABLE.
NotNullViolated(user_id, customer_id, a) ==
    PyNone \in {user_id, customer_id, a.operation_type, a.resource_type, a.function_name}

\* AuditLogger.log_operation(**a) with the store behaving as db. sqlite3.connect is
\* outside the try; everything from the argument tuple to commit is inside it, and
\* `except Exception` there prints and returns.
\* log_operation committing what it has when json.dumps raises: the row without its
\* structured columns and its session id.
log_operation_committing_part(st, a, db) ==
    IF db = "connect_fail" THEN Outcome(st, OperationalError)
    ELSE
        LET u == get_user_id(st.session_state)
            c == get_customer_id(u.ss)
            dumps_raises ==
                \/ Truthy(a.parameters) /\ Unserializable(a.parameters)
                \/ Truthy(a.result_data) /\ Unserializable(a.result_data)
            s == get_session_id(u.ss)
            part == [Row(st.seq + 1, u.ret, c, SqlNull, a)
                        EXCEPT !.parameters = SqlNull, !.result_data = SqlNull]
        IN  IF dumps_raises
            THEN Outcome(State(u.ss, Append(st.audit_logs, part), st.seq + 1), NoExc)
            ELSE IF db = "insert_fail" \/ NotNullViolated(u.ret, c, a)
            THEN Outcome(State(s.ss, st.audit_logs, st.seq), NoExc)
            ELSE Outcome(State(s.ss,
                               Append(st.audit_logs, Row(st.seq + 1, u.ret, c, s.ret, a)),
                               st.seq + 1),
                         NoExc)

log_operation(st, a, db) ==
    IF db = "connect_fail" THEN Outcome(st, OperationalError)
    ELSE
        LET u == get_user_id(st.session_state)
            c == get_customer_id(u.ss)
            dumps_raises ==
                \/ Truthy(a.parameters) /\ Unserializable(a.parameters)
                \/ Truthy(a.result_data) /\ Unserializable(a.result_data)
            s == get_session_id(u.ss)
        IN  IF dumps_raises THEN Outcome(State(u.ss, st.audit_logs, st.seq), NoExc)
            ELSE IF db = "insert_fail" \/ NotNullViolated(u.ret, c, a)
            THEN Outcome(State(s.ss, st.audit_logs, st.seq), NoExc)
            ELSE Outcome(State(s.ss,
                               Append(st.audit_logs, Row(st.seq + 1, u.ret, c, s.ret, a)),
                               st.seq + 1),
                         NoExc)

\* ---------------------------------------------------------------- schema

\* The columns of CREATE TABLE audit_logs, in its order.
AllColumns ==
    <<"id", "timestamp", "user_id", "customer_id", "operation_type", "resource_type",
      "resource_id", "function_name", "parameters", "result_status", "result_data",
      "error_message", "error_type", "error_code", "stack_trace", "execution_time_ms",
      "session_id">>

\* The columns init_database adds to a table of an earlier version.
AddedColumns == <<"error_type", "error_code", "stack_trace">>

\* CREATE INDEX IF NOT EXISTS <name> ON audit_logs(<column>), in the order of the code.
Index(name, column) == [name |-> name, column |-> column]

Indexes ==
    <<Index("idx_timestamp", "timestamp"), Index("idx_user_id", "user_id"),
      Index("idx_customer_id", "customer_id"), Index("idx_operation_type", "operation_type"),
      Index("idx_resource_type", "resource_type")>>

Schema(columns, indexes) == [columns |-> columns, indexes |-> indexes]

\* A file with no table audit_logs.
NoTable == Schema(<<>>, {})

Columns(sch) == {sch.columns[i] : i \in 1..Len(sch.columns)}

\* CREATE TABLE IF NOT EXISTS
create_table(sch) == IF sch.columns = <<>> THEN Schema(AllColumns, sch.indexes) ELSE sch

\* ALTER TABLE ... ADD COLUMN with no regard for the column being there.
RECURSIVE add_columns_again(_, _)
add_columns_again(sch, cols) ==
    IF cols = <<>> THEN sch
    ELSE add_columns_again(Schema(Append(sch.columns, Head(cols)), sch.indexes), Tail(cols))

\* try: ALTER TABLE audit_logs ADD COLUMN c TEXT / except OperationalError: pass,
\* SQLite refusing a duplicate column name.
RECURSIVE add_columns(_, _)
add_columns(sch, cols) ==
    IF cols = <<>> THEN sch
    ELSE add_columns(IF Head(cols) \in Columns(sch) THEN sch
                     ELSE Schema(Append(sch.columns, Head(cols)), sch.indexes),
                     Tail(cols))

NoSuchColumn == PlainExc("OperationalError", "table audit_logs has no column")

\* The CREATE INDEX statements in turn; one on a missing column raises and ends the call.
RECURSIVE create_indexes(_, _)
create_indexes(sch, ixs) ==
    IF ixs = <<>> THEN [schema |-> sch, raised |-> NoExc]
    ELSE IF Head(ixs).column \notin Columns(sch) THEN [schema |-> sch, raised |-> NoSuchColumn]
    ELSE create_indexes(Schema(sch.columns, sch.indexes \cup {Head(ixs).name}), Tail(ixs))

\* The outcome of init_database: the table's rows, the schema, the exception raised.
Initialized(st, sch, raised) == [schema |-> sch, st |-> st, raised |-> raised]

\* An initialization that drops and recreates the table.
init_database_recreating(st, sch) ==
    Initialized(State(st.session_state, <<>>, 0), Schema(AllColumns, {Indexes[i].name : i \in 1..Len(Indexes)}), NoExc)

\* An initialization whose ALTER TABLE statements always add their column.
init_database_altering(st, sch) ==
    LET made == create_indexes(add_columns_again(create_table(sch), AddedColumns), Indexes)
    IN  Initialized(st, made.schema, made.raised)

init_database(st, sch) ==
    LET made == create_indexes(add_columns(create_table(sch), AddedColumns), Indexes)
    IN  Initialized(st, made.schema, made.raised)

\* The columns the INSERT of log_operation names.
InsertColumns == {AllColumns[i] : i \in 3..Len(AllColumns)}

\* The INSERT of log_operation compiles against the table in the file.
Insertable(sch) == InsertColumns \subseteq Columns(sch)

\* What the store does to an INSERT that nothing else stops.
Effective(db, sch) == IF db = "ok" /\ ~Insertable(sch) THEN "insert_fail" ELSE db

\* A DELETE that also forgets the AUTOINCREMENT sequence.
clear_all_resetting(st) == State(st.session_state, <<>>, 0)

\* DELETE FROM audit_logs: sqlite_sequence keeps the last id given.
\* A DELETE that spares the entries of failed operations.
clear_all_sparing_errors(st) ==
    State(st.session_state, SelectSeq(st.audit_logs, LAMBDA r : r.result_status = "ERROR"), st.seq)

clear_all(st) == State(st.session_state, <<>>, st.seq)

\* ---------------------------------------------------------------- query

\* The seconds of SQLite's '-1 day', and of a calendar day.
Day == 86400

\* A start_date or end_date argument: None, the text 'YYYY-MM-DD HH:MM:SS' of the second
\* `at`, or the date-only text 'YYYY-MM-DD' of the day `at` (date.isoformat()).
DateBound(kind, at) == [kind |-> kind, at |-> at]

NoDate == DateBound("none", NullInt)

DateTimeText(t) == DateBound("datetime", t)

DateText(d) == DateBound("date", d)

\* The calendar day of a timestamp.
DayOf(t) == t \div Day

\* `timestamp >= ?` on the stored text: a date-only bound is a proper prefix of every
\* timestamp of its day, and a prefix sorts before the longer text.
NotBefore(ts, b) == IF b.kind = "date" THEN DayOf(ts) >= b.at ELSE ts >= b.at

\* `timestamp <= ?`: no timestamp of the bound's own day is <= the date-only text.
NotAfter(ts, b) == IF b.kind = "date" THEN DayOf(ts) < b.at ELSE ts <= b.at

\* The filters of get_audit_logs; PyNone (NoDate for the dates) is Python's None.
Filters(user_id, customer_id, operation_type, resource_type, start_date, end_date) ==
    [user_id |-> user_id, customer_id |-> customer_id, operation_type |-> operation_type,
     resource_type |-> resource_type, start_date |-> start_date, end_date |-> end_date]

NoFilters == Filters(PyNone, PyNone, PyNone, PyNone, NoDate, NoDate)

\* `if user_id:` and the like: None and "" add no condition.
FilterGiven(x) == x \notin {PyNone, ""}

DateGiven(d) == d.kind # "none"

\* The WHERE clause built from the filters that are given.
Matches(r, f) ==
    /\ FilterGiven(f.user_id) => r.user_id = f.user_id
    /\ FilterGiven(f.customer_id) => r.customer_id = f.customer_id
    /\ FilterGiven(f.operation_type) => r.operation_type = f.operation_type
    /\ FilterGiven(f.resource_type) => r.resource_type = f.resource_type
    /\ DateGiven(f.start_date) => NotBefore(r.timestamp, f.start_date)
    /\ DateGiven(f.end_date) => NotAfter(r.timestamp, f.end_date)

\* ORDER BY timestamp DESC names no second key, so the order of rows of one timestamp
\* is that of the plan SQLite picks. With no equality filter it scans idx_timestamp
\* backwards: rowid descending. With one it searches that filter's index and sorts
\* the matches (USE TEMP B-TREE FOR ORDER BY): equal timestamps then come out by
\* rowid ascending, and nothing in the query excludes the other order.
EqualityFiltered(f) ==
    \E x \in {f.user_id, f.customer_id, f.operation_type, f.resource_type} : FilterGiven(x)

TieOrders(f) == IF EqualityFiltered(f) THEN {"asc", "desc"} ELSE {"desc"}

Before(a, b, tie) ==
    \/ a.timestamp > b.timestamp
    \/ a.timestamp = b.timestamp /\ (IF tie = "desc" THEN a.id > b.id ELSE a.id < b.id)

RECURSIVE OrderBy(_, _)
OrderBy(S, tie) ==
    IF S = {} THEN <<>>
    ELSE LET first == CHOOSE r \in S : \A o \in S \ {r} : Before(r, o, tie)
         IN  <<first>> \o OrderBy(S \ {first}, tie)

\* LIMIT ?: a negative limit is no limit.
Limit(rows, limit) ==
    IF limit < 0 \/ limit >= Len(rows) THEN rows ELSE SubSeq(rows, 1, limit)

\* A parameters/result_data field of a returned entry: the value json.loads gave,
\* the stored text itself, or None.
Field(kind, py, raw) == [kind |-> kind, py |-> py, raw |-> raw]

\* Stored text that is not JSON: json.loads raises JSONDecodeError on it
\* ("malformed"), or, when it opens more arrays or objects than the interpreter
\* allows recursion levels, RecursionError before it finds the text wanting ("nested").
NotJson(t) == t.tag \in {"malformed", "nested"}

RecursionError ==
    PlainExc("RecursionError", "maximum recursion depth exceeded while decoding a JSON array")

loads_raises(t) == IF t.tag = "nested" THEN RecursionError ELSE NoExc

\* `if log_entry[c]: try: json.loads(...) except JSONDecodeError: pass`
LoadColumn(t) ==
    IF t = SqlNull THEN Field("none", NoneV, SqlNull)
    ELSE IF NotJson(t) THEN Field("text", NoneV, t)
    ELSE Field("value", Loads(t), SqlNull)

LogEntry(r) ==
    [r EXCEPT !.parameters = LoadColumn(r.parameters), !.result_data = LoadColumn(r.result_data)]

\* cursor.fetchall() of the query.
fetchall(rows, limit, f, tie) ==
    LET matching == {rows[i] : i \in {j \in 1..Len(rows) : Matches(rows[j], f)}}
    IN  Limit(OrderBy(matching, tie), limit)

\* What get_audit_logs raises: the first exception of the loop over the rows that is
\* no JSONDecodeError.
get_audit_logs_raises(rows, limit, f, tie) ==
    LET fetched == fetchall(rows, limit, f, tie)
        bad == {i \in 1..Len(fetched) :
                   \E t \in {fetched[i].parameters, fetched[i].result_data} :
                       loads_raises(t) # NoExc}
    IN  IF bad = {} THEN NoExc ELSE RecursionError

\* What get_audit_logs returns when it raises nothing.
get_audit_logs(rows, limit, f, tie) ==
    LET fetched == fetchall(rows, limit, f, tie)
    IN  [i \in 1..Len(fetched) |-> LogEntry(fetched[i])]

\* ---------------------------------------------------------------- statistics

\* LIMIT 10 of the most_active_users and of the top_error_codes query.
TopUsers == 10

TopErrorCodes == 10

\* One row of a GROUP BY: a value of the field and COUNT(*).
Group(key, count) == [key |-> key, count |-> count]

GroupBy(rows, field) ==
    {Group(v, Cardinality({i \in 1..Len(rows) : rows[i][field] = v})) :
        v \in {rows[i][field] : i \in 1..Len(rows)}}

\* ORDER BY count DESC: every order of the groups by descending count; the query names
\* no second key, so groups of one count come in any order.
RECURSIVE OrderByCountDesc(_)
OrderByCountDesc(G) ==
    IF G = {} THEN {<<>>}
    ELSE LET top == {g \in G : \A h \in G : g.count >= h.count}
         IN  UNION {{<<g>> \o rest : rest \in OrderByCountDesc(G \ {g})} : g \in top}

\* The values result_status takes here, in the order SQLite's BINARY collation gives
\* them: NULL first, then the texts byte by byte.
StatusCollation == <<PyNone, "ERROR", "PENDING", "SUCCESS">>

CollationRank(v) == CHOOSE i \in 1..Len(StatusCollation) : StatusCollation[i] = v

\* GROUP BY result_status with no ORDER BY: the groups leave the sorter that formed
\* them, by ascending key.
RECURSIVE InGroupOrder(_)
InGroupOrder(G) ==
    IF G = {} THEN <<>>
    ELSE LET first == CHOOSE g \in G : \A h \in G : CollationRank(g.key) <= CollationRank(h.key)
         IN  <<first>> \o InGroupOrder(G \ {first})

\* WHERE result_status = 'ERROR' AND <field> IS NOT NULL
IsErrorWith(r, field) == r.result_status = "ERROR" /\ r[field] # PyNone

ErrorRows(rows, field) == SelectSeq(rows, LAMBDA r : IsErrorWith(r, field))

\* timestamp >= datetime('now', '-1 day'), both texts of one format.
Within24h(ts, t) == ts >= t - Day

\* A count of the successful rows only.
total_operations_successful(rows) == Len(SelectSeq(rows, LAMBDA r : r.result_status = "SUCCESS"))

\* The count kept from the first call and served again.
total_operations_cached(rows) ==
    IF stats.called THEN stats.result.total_operations ELSE Len(rows)

\* SELECT COUNT(*) FROM audit_logs
total_operations(rows) == Len(rows)

\* A count over the whole table, whatever the age of a row.
last_24h_unbounded(rows, t) == rows

last_24h(rows, t) == SelectSeq(rows, LAMBDA r : Within24h(r.timestamp, t))

errors_only(rows) == SelectSeq(rows, LAMBDA r : r.result_status = "ERROR")

\* The users in the order they first wrote, uncounted order.
RECURSIVE most_active_users_unordered(_)
most_active_users_unordered(rows) ==
    IF rows = <<>> THEN {<<>>}
    ELSE LET u == Head(rows).user_id
             rest == SelectSeq(Tail(rows), LAMBDA r : r.user_id # u)
             n == Len(rows) - Len(rest)
         IN  {Limit(<<Group(u, n)>> \o m, TopUsers) : m \in most_active_users_unordered(rest)}

most_active_users(rows) ==
    {Limit(m, TopUsers) : m \in OrderByCountDesc(GroupBy(rows, "user_id"))}

Stats(total, by_type, by_resource, status, last24, users, err_types, err_codes, err24) ==
    [total_operations |-> total, most_active_users |-> users,
     operations_by_type |-> by_type, operations_by_resource |-> by_resource,
     status_breakdown |-> status, operations_last_24h |-> last24,
     errors_by_type |-> err_types, top_error_codes |-> err_codes, errors_last_24h |-> err24]

\* Every dict get_operation_stats can return at time t: each mapping is a sequence of
\* groups, in the order the dict lists its keys.
get_operation_stats(rows, t) ==
    {Stats(total_operations(rows), by_type, by_resource,
           InGroupOrder(GroupBy(rows, "result_status")),
           Len(last_24h(rows, t)), users, err_types, Limit(err_codes, TopErrorCodes),
           Len(last_24h(errors_only(rows), t))) :
        by_type \in OrderByCountDesc(GroupBy(rows, "operation_type")),
        by_resource \in OrderByCountDesc(GroupBy(rows, "resource_type")),
        users \in most_active_users(rows),
        err_types \in OrderByCountDesc(GroupBy(ErrorRows(rows, "error_type"), "error_type")),
        err_codes \in OrderByCountDesc(GroupBy(ErrorRows(rows, "error_code"), "error_code"))}

\* ---------------------------------------------------------------- error decomposition

\* traceback.format_exc(): opaque text.
StackTrace == "Traceback (most recent call last): ..."

\* format_exc() while no exception is being handled.
NoTrace == "NoneType: None"

\* traceback.format_exc(), called while an exception is being handled or not.
format_exc(handling) == IF handling THEN StackTrace ELSE NoTrace

\* What the decomposition of an error gives, or the exception it raises itself.
Details(raised, error_type, error_code, error_message) ==
    [error_code |-> error_code, raised |-> raised, error_message |-> error_message,
     error_type |-> error_type]

\* getattr(err, 'error_code', {}).get('name', 'UNKNOWN') needs a mapping.
HasGet(v) == v.tag = "dict"

error_info(err) ==
    DictV(<<Item(StrV("error_code"), DictGet(err.error_code, "name", StrV("UNKNOWN"))),
            Item(StrV("message"), err.message),
            Item(StrV("location"), err.location)>>)

\* The first error code that is not None, as the loop keeps it.
FirstErrorCode(infos) ==
    LET set == {i \in 1..Len(infos) : infos[i].kids[1].v # NoneV}
    IN  IF set = {} THEN PyNone
        ELSE infos[CHOOSE i \in set : \A j \in set : i <= j].kids[1].v.lit

\* log_error, lines 220-243.
log_error_details(e) ==
    IF e.has_failure THEN
        IF \E i \in 1..Len(e.errors) : ~HasGet(e.errors[i].error_code)
        THEN Details(PlainExc("AttributeError", "object has no attribute 'get'"),
                     e.type, PyNone, NullMsg)
        ELSE LET infos == [i \in 1..Len(e.errors) |-> error_info(e.errors[i])]
             IN  IF Unserializable(ListV(infos))
                 THEN Details(PlainExc("TypeError", "Object is not JSON serializable"),
                              e.type, FirstErrorCode(infos), NullMsg)
                 ELSE Details(NoExc, e.type, FirstErrorCode(infos),
                              Msg("Google Ads API Error: ", Dumps(ListV(infos))))
    ELSE IF e.has_code THEN Details(NoExc, e.type, e.code, Msg(e.message, SqlNull))
    ELSE Details(NoExc, e.type, PyNone, Msg(e.message, SqlNull))

\* audit_log.wrapper, lines 391-414: the same decomposition, written out again.
wrapper_error_details(e) ==
    IF e.has_failure THEN
        IF \E i \in 1..Len(e.errors) : ~HasGet(e.errors[i].error_code)
        THEN Details(PlainExc("AttributeError", "object has no attribute 'get'"),
                     e.type, PyNone, NullMsg)
        ELSE LET infos == [i \in 1..Len(e.errors) |-> error_info(e.errors[i])]
             IN  IF Unserializable(ListV(infos))
                 THEN Details(PlainExc("TypeError", "Object is not JSON serializable"),
                              e.type, FirstErrorCode(infos), NullMsg)
                 ELSE Details(NoExc, e.type, FirstErrorCode(infos),
                              Msg("Google Ads API Error: ", Dumps(ListV(infos))))
    ELSE IF e.has_code THEN Details(NoExc, e.type, e.code, Msg(e.message, SqlNull))
    ELSE Details(NoExc, e.type, PyNone, Msg(e.message, SqlNull))

\* AuditLogger.log_error(operation_type, resource_type, function_name, error, parameters),
\* called inside an except block (handling) or outside one.
log_error(st, operation_type, resource_type, function_name, error, parameters, handling, db) ==
    LET d == log_error_details(error)
    IN  IF d.raised # NoExc THEN Outcome(st, d.raised)
        ELSE log_operation(st,
                 Entry(operation_type, resource_type, function_name, parameters, PyNone,
                       "ERROR", NoneV, d.error_message, d.error_type, d.error_code,
                       format_exc(handling), NullInt),
                 db)

\* BaseGoogleAdsClient.handle_exception(exception): what it leaves and raises itself,
\* and the APIError it returns when it raises nothing.
handle_exception(st, exception, customer_id, db) ==
    LET api_error == PlainExc("APIError", "Google Ads API error: INVALID_ARGUMENT")
        logged == log_error(st, "API_CALL", "GOOGLE_ADS_API", "handle_exception", exception,
                            DictV(<<Item(StrV("customer_id"), StrV(customer_id))>>), TRUE, db)
    IN  [ret |-> IF logged.raised = NoExc THEN api_error ELSE NoExc, st |-> logged.st,
         raised |-> logged.raised]

\* ---------------------------------------------------------------- operation interceptor

\* What a wrapped function returned: a string, a bool, None, a list, or an object;
\* `results` tells its attribute of that name ("absent", "None", "empty", "list" of n
\* elements, or "nolen": a truthy object with neither len() nor indexing); first is
\* results[0].resource_name, PyNone when results[0] has no such attribute.
Res(tag, lit, results, n, first) ==
    [tag |-> tag, lit |-> lit, first |-> first, n |-> n, results |-> results]

\* Nothing was returned: the call raised.
NoRes == Res("", "", "absent", 0, PyNone)

StrRes(s) == Res("str", s, "absent", 0, PyNone)

\* The strings of the model that contain '/'.
ResourceNames ==
    {"customers/123/campaigns/456", "customers/123/campaignBudgets/7"}

ContainsSlash(s) == s \in ResourceNames

\* The run of the wrapped function: the state it leaves, and what it raised or returned.
Ran(st, raised, result) == [st |-> st, raised |-> raised, result |-> result]

\* The names the wrapper leaves out of the snapshot.
\* A filter that lets the password through: C4_Redacted must fail with it.
SensitiveNamesWithoutPassword == {"client", "service", "token"}

SensitiveNames == {"client", "service", "password", "token"}

RECURSIVE Filtered(_)
Filtered(items) ==
    IF items = <<>> THEN <<>>
    ELSE (IF Head(items).k.lit \notin SensitiveNames THEN <<Head(items)>> ELSE <<>>)
         \o Filtered(Tail(items))

\* dict.update: a key already present keeps its place and takes the new value.
RECURSIVE Update(_, _)
Update(items, more) ==
    IF more = <<>> THEN items
    ELSE LET m == Head(more)
             at == {i \in 1..Len(items) : items[i].k = m.k}
         IN  Update(IF at = {} THEN Append(items, m)
                    ELSE [i \in 1..Len(items) |-> IF i \in at THEN m ELSE items[i]],
                    Tail(more))

\* audit_log.wrapper, lines 353-361: args is the tuple of positional arguments,
\* kwargs the dict of keyword arguments.
log_params(args, kwargs) ==
    LET counted == IF args # <<>>
                   THEN <<Item(StrV("args_count"), IntV(ToString(Len(args))))>>
                   ELSE <<>>
    IN  DictV(IF kwargs.kids # <<>> THEN Update(counted, Filtered(kwargs.kids)) ELSE counted)

\* Lines 367-373: the resource id, or the TypeError of results[0].
NotSubscriptable == PlainExc("TypeError", "object is not subscriptable")

NoLen == PlainExc("TypeError", "object has no len()")

resource_id_of(result) ==
    IF result.results \in {"list", "nolen"}
    THEN (IF result.results = "list" THEN result.first ELSE PyNone)
    ELSE IF result.tag = "str" /\ ContainsSlash(result.lit) THEN result.lit
    ELSE PyNone

\* Line 382: {"resource_count": len(result.results) if hasattr(result, 'results') else None}
resource_count(result) ==
    DictV(<<Item(StrV("resource_count"),
                 IF result.results = "absent" THEN NoneV ELSE IntV(ToString(result.n)))>>)

\* What the try block raises before log_operation is called, NoExc if nothing.
success_path_raises(result) ==
    IF result.results = "nolen" THEN NotSubscriptable
    ELSE IF result.results = "None" THEN NoLen
    ELSE NoExc

\* Lines 388-429: e was raised inside the try block.
wrapper_except(st, operation_type, resource_type, function_name, params, e, db) ==
    LET d == wrapper_error_details(e)
        logged == log_operation(st,
                      Entry(operation_type, resource_type, function_name, params, PyNone,
                            "ERROR", NoneV, d.error_message, d.error_type, d.error_code,
                            StackTrace, 0),
                      db)
    IN  IF d.raised # NoExc THEN Ran(st, d.raised, NoRes)
        ELSE IF logged.raised # NoExc THEN Ran(logged.st, logged.raised, NoRes)
        ELSE Ran(logged.st, e, NoRes)

\* audit_log(operation_type, resource_type)(func)(*args, **kwargs), where ran is the
\* run of func; db1 and db2 are the store's behaviour at the write of the try block
\* and at the write of the except block.
wrapper(operation_type, resource_type, function_name, args, kwargs, ran, db1, db2) ==
    LET params == log_params(args, kwargs)
        early == success_path_raises(ran.result)
        logged == log_operation(ran.st,
                      Entry(operation_type, resource_type, function_name, params,
                            resource_id_of(ran.result), "SUCCESS", resource_count(ran.result),
                            NullMsg, PyNone, PyNone, PyNone, 0),
                      db1)
    IN  IF ran.raised # NoExc
        THEN wrapper_except(ran.st, operation_type, resource_type, function_name, params,
                            ran.raised, db2)
        ELSE IF early # NoExc
        THEN wrapper_except(ran.st, operation_type, resource_type, function_name, params,
                            early, db2)
        ELSE IF logged.raised # NoExc
        THEN wrapper_except(logged.st, operation_type, resource_type, function_name, params,
                            logged.raised, db2)
        ELSE Ran(logged.st, NoExc, ran.result)

\* ---------------------------------------------------------------- managers

\* What the vendor service does with a mutate request: it answers with the resource
\* name of results[0], or raises a GoogleAdsException.
Answered(resource_name) == [raised |-> NoExc, resource_name |-> resource_name]

Failed(ex) == [raised |-> ex, resource_name |-> PyNone]

\* The body of an audited manager method (CampaignManager.create_campaign and the
\* others of its shape): try: ... return response.results[0].resource_name
\* except GoogleAdsException as ex: raise self.base_client.handle_exception(ex)
manager_body(st, vendor, customer_id, db) ==
    IF vendor.raised = NoExc THEN Ran(st, NoExc, StrRes(vendor.resource_name))
    ELSE LET h == handle_exception(st, vendor.raised, customer_id, db)
         IN  Ran(h.st, IF h.raised # NoExc THEN h.raised ELSE h.ret, NoRes)

\* A method of a manager that sends a mutate request: its name, the arguments of the
\* @audit_log above it (audited: whether there is one), and what it returns ("name":
\* the resource name of results[0], "names": the list of them, "bool": True).
Method(manager, name, audited, operation_type, resource_type, returns) ==
    [name |-> name, operation_type |-> operation_type, resource_type |-> resource_type,
     manager |-> manager, audited |-> audited,
     returns |-> returns]

Audited(manager, name, operation_type, resource_type, returns) ==
    Method(manager, name, TRUE, operation_type, resource_type, returns)

Unaudited(manager, name, returns) == Method(manager, name, FALSE, PyNone, PyNone, returns)

CampaignManager ==
    {Audited("campaign", "create_campaign_budget", "CREATE", "BUDGET", "name"),
     Audited("campaign", "create_campaign", "CREATE", "CAMPAIGN", "name"),
     Unaudited("campaign", "add_geo_targeting", "names"),
     Unaudited("campaign", "add_language_targeting", "names"),
     Unaudited("campaign", "remove_campaign_criteria", "bool"),
     Audited("campaign", "update_campaign_status", "UPDATE", "CAMPAIGN", "name"),
     Audited("campaign", "remove_campaign", "REMOVE", "CAMPAIGN", "name"),
     Audited("campaign", "update_campaign_name", "UPDATE", "CAMPAIGN", "name"),
     Audited("campaign", "update_campaign_budget", "UPDATE", "BUDGET", "name"),
     Unaudited("campaign", "update_campaign_network_settings", "name")}

AdGroupManager ==
    {Audited("ad_group", "create_ad_group", "CREATE", "AD_GROUP", "name"),
     Unaudited("ad_group", "create_text_ad", "name"),
     Audited("ad_group", "create_responsive_search_ad", "CREATE", "AD", "name"),
     Audited("ad_group", "update_ad_group_status", "UPDATE", "AD_GROUP", "name"),
     Audited("ad_group", "update_ad_status", "UPDATE", "AD", "name"),
     Audited("ad_group", "remove_ad", "REMOVE", "AD", "name")}

KeywordManager ==
    {Audited("keyword", "add_keywords", "CREATE", "KEYWORD", "names"),
     Unaudited("keyword", "add_negative_keywords_to_campaign", "bool"),
     Audited("keyword", "update_keyword_status", "UPDATE", "KEYWORD", "name"),
     Unaudited("keyword", "update_keyword_bid", "name"),
     Unaudited("keyword", "remove_keyword", "name")}

ExtensionsManager ==
    {Audited("extensions", "create_callout_extension", "CREATE", "EXTENSION", "name"),
     Audited("extensions", "create_sitelink_extension", "CREATE", "EXTENSION", "name"),
     Unaudited("extensions", "add_callout_extension_to_campaign", "bool"),
     Unaudited("extensions", "add_sitelink_extension_to_campaign", "bool")}

BiddingManager ==
    {Unaudited("bidding", "create_target_cpa_bidding_strategy", "name"),
     Unaudited("bidding", "create_target_roas_bidding_strategy", "name"),
     Audited("bidding", "apply_bidding_strategy_to_campaign", "UPDATE", "BIDDING_STRATEGY", "bool"),
     Unaudited("bidding", "update_bidding_strategy", "bool")}

MutatingMethods ==
    CampaignManager \cup AdGroupManager \cup KeywordManager \cup ExtensionsManager
    \cup BiddingManager

\* What the method returns of the vendor's answer.
returned_value(method, vendor) ==
    IF method.returns = "name" THEN StrRes(vendor.resource_name)
    ELSE IF method.returns = "names" THEN Res("list", "['" \o vendor.resource_name \o "']", "absent", 0, PyNone)
    ELSE Res("bool", "True", "absent", 0, PyNone)

\* The body of the method: try: ... return ...
\* except GoogleAdsException as ex: raise self.base_client.handle_exception(ex)
method_body(st, method, vendor, customer_id, db) ==
    IF vendor.raised = NoExc THEN Ran(st, NoExc, returned_value(method, vendor))
    ELSE LET h == handle_exception(st, vendor.raised, customer_id, db)
         IN  Ran(h.st, IF h.raised # NoExc THEN h.raised ELSE h.ret, NoRes)

\* The method as the class holds it: wrapped by audit_log where it is decorated.
manager_method(st, method, vendor, customer_id, db) ==
    LET body == method_body(st, method, vendor, customer_id, db)
    IN  IF method.audited
        THEN wrapper(method.operation_type, method.resource_type, method.name, <<"self">>,
                     DictV(<<>>), body, db, db)
        ELSE body

\* ---------------------------------------------------------------- observations

\* One call as its caller saw it: what was called with which arguments (entry: the
\* arguments of a direct log_operation), what the wrapped function did (func_raised,
\* func_result), what the call itself raised or returned, and the ids of the rows the
\* store gained during it.
Call(op, args, kwargs, entry, func_raised, func_result, raised, returned, ids) ==
    [raised |-> raised, args |-> args, kwargs |-> kwargs, op |-> op,
     entry |-> entry, func_raised |-> func_raised, func_result |-> func_result,
     returned |-> returned, ids |-> ids]

NoEntry == Entry("", "", "", NoneV, PyNone, "", NoneV, NullMsg, PyNone, PyNone, PyNone, NullInt)

NewIds(before, after) == {i \in 1..after.seq : i > before.seq}

\* The last get_audit_logs: its arguments, the table it read, and what it returned or
\* raised.
Queried(called, limit, filters, stored, result, raised) ==
    [raised |-> raised, limit |-> limit, called |-> called, result |-> result,
     filters |-> filters, stored |-> stored]

\* The threads that call log_operation at the same time, each at a position of its
\* call: "idle" (not called yet), "connected" (sqlite3.connect returned), "inserted"
\* (INSERT executed inside the connection's transaction, the row not committed: the
\* connection holds the write lock of the file), "closed" (conn.close() done).
Threads == 1..MaxThreads

Thread(pc, row) == [pc |-> pc, row |-> row]

\* ---------------------------------------------------------------- initial state

\* The module is imported (AuditLogger() has created the empty table) and main.py has
\* set ads_sdk = None and authenticated = False in a fresh session.
EnvUserIds == {PyNone, "env_user"}

\* The last get_operation_stats: the table it read, when, and the dict it returned.
Measured(called, stored, at, result) ==
    [at |-> at, called |-> called, result |-> result, stored |-> stored]

NoStats == Stats(0, <<>>, <<>>, <<>>, 0, <<>>, <<>>, <<>>, 0)

\* The schema AuditLogger() leaves in a new file.
CurrentSchema == init_database(State(<<>>, <<>>, 0), NoTable).schema

\* A fresh session over a store file holding rows (the last id given: s) under schema sch.
Start(rows, s, sch) ==
    /\ session_state = [k \in {} |-> ""]
    /\ authenticated = FALSE
    /\ ads_sdk = FALSE
    /\ env_user_id \in EnvUserIds
    /\ now = 0
    /\ audit_logs = rows
    /\ seq = s
    /\ calls = <<>>
    /\ logs = Queried(FALSE, 0, NoFilters, <<>>, <<>>, NoExc)
    /\ stats = Measured(FALSE, <<>>, 0, NoStats)
    /\ schema = sch
    /\ cleared = 0
    /\ threads = [t \in Threads |-> Thread("idle", <<>>)]

Init == Start(<<>>, 0, CurrentSchema)

\* ---------------------------------------------------------------- actions

\* The calls made so far that write entries, and those of init_database.
Writes == Cardinality({i \in 1..Len(calls) : calls[i].op # "init_database"})

Inits == Len(calls) - Writes

\* The state a call leaves.
Leave(st) ==
    /\ session_state' = st.session_state
    /\ audit_logs' = st.audit_logs
    /\ seq' = st.seq

\* A second passes.
Tick ==
    /\ now < MaxTime
    /\ now' = now + 1
    /\ UNCHANGED <<session_state, authenticated, ads_sdk, env_user_id, cleared, threads, audit_logs, seq, calls, logs, stats, schema>>

\* main.authenticate, the form submitted and GoogleAdsSDK(credentials) created:
\* credentials.validate() lets no empty customer id through.
Authenticate(customer_id) ==
    /\ ~authenticated
    /\ session_state' = Put(session_state, "customer_id", customer_id)
    /\ ads_sdk' = TRUE
    /\ authenticated' = TRUE
    /\ UNCHANGED <<env_user_id, cleared, threads, now, audit_logs, seq, calls, logs, stats, schema>>

\* main.main, the sidebar's Disconnect button.
Disconnect ==
    /\ authenticated /\ ads_sdk
    /\ authenticated' = FALSE
    /\ ads_sdk' = FALSE
    /\ session_state' = Put(session_state, "customer_id", PyNone)
    /\ UNCHANGED <<env_user_id, cleared, threads, now, audit_logs, seq, calls, logs, stats, schema>>

\* A run of audit_logs_page: get_user_id, then get_customer_id and get_session_id.
page_render(ss) == get_session_id(get_user_id(ss).ss).ss

\* The Audit Logs page shown, no button clicked.
ViewAuditLogs ==
    /\ authenticated
    /\ session_state' = page_render(session_state)
    /\ UNCHANGED <<authenticated, ads_sdk, env_user_id, cleared, threads, now, audit_logs, seq, calls, logs, stats, schema>>

\* audit_logs_page, 'Update User ID' clicked with new_user_id in the text field:
\* the override is stored and the page reruns when the text differs from the current id.
update_user_id(ss, new_user_id) ==
    LET current_user == get_user_id(ss)
    IN  IF new_user_id # current_user.ret
        THEN page_render(Put(current_user.ss, "user_id", new_user_id))
        ELSE page_render(current_user.ss)

UpdateUserID(new_user_id) ==
    /\ authenticated
    /\ session_state' = update_user_id(session_state, new_user_id)
    /\ UNCHANGED <<authenticated, ads_sdk, env_user_id, cleared, threads, now, audit_logs, seq, calls, logs, stats, schema>>

\* A direct call of audit_logger.log_operation(**a).
LogOperationCall(a, db) ==
    /\ Writes < MaxCalls
    /\ LET out == log_operation(Current, a, Effective(db, schema))
       IN  /\ Leave(out.st)
           /\ calls' = Append(calls, Call("log_operation", <<>>, DictV(<<>>), a, NoExc, NoRes,
                                          out.raised, NoRes, NewIds(Current, out.st)))
    /\ UNCHANGED <<authenticated, ads_sdk, env_user_id, cleared, threads, now, logs, stats, schema>>

\* log_operation of thread t, step by step against the file's write lock.
WriteLocked == \E t \in Threads : threads[t].pc = "inserted"

\* Lines 107-108: a connection of the call's own.
ThreadConnect(t) ==
    /\ threads[t].pc = "idle"
    /\ threads' = [threads EXCEPT ![t] = Thread("connected", <<>>)]
    /\ UNCHANGED <<session_state, authenticated, ads_sdk, env_user_id, cleared, now, audit_logs,
                   seq, calls, logs, stats, schema>>

\* Lines 111-132: the identity is resolved, the transaction begins and INSERT takes
\* the write lock: the row exists inside the transaction only.
ThreadInsert(t, a) ==
    /\ threads[t].pc = "connected"
    /\ ~WriteLocked
    /\ LET u == get_user_id(session_state)
           c == get_customer_id(u.ss)
           s == get_session_id(u.ss)
       IN  /\ session_state' = s.ss
           /\ threads' = [threads EXCEPT
                            ![t] = Thread("inserted", <<Row(seq + 1, u.ret, c, s.ret, a)>>)]
    /\ UNCHANGED <<authenticated, ads_sdk, env_user_id, cleared, now, audit_logs, seq, calls,
                   logs, stats, schema>>

\* Lines 111-139 while another connection holds the write lock and keeps it past the
\* busy timeout: execute raises OperationalError (database is locked), `except
\* Exception` prints it, `finally` closes the connection.
ThreadLockedOut(t) ==
    /\ threads[t].pc = "connected"
    /\ WriteLocked
    /\ session_state' = get_session_id(get_user_id(session_state).ss).ss
    /\ threads' = [threads EXCEPT ![t] = Thread("closed", <<>>)]
    /\ UNCHANGED <<authenticated, ads_sdk, env_user_id, cleared, now, audit_logs, seq, calls,
                   logs, stats, schema>>

\* Lines 134-139: conn.commit() makes the row part of the table and gives up the
\* lock; conn.close().
ThreadCommit(t) ==
    /\ threads[t].pc = "inserted"
    /\ audit_logs' = audit_logs \o threads[t].row
    /\ seq' = threads[t].row[1].id
    /\ threads' = [threads EXCEPT ![t] = Thread("closed", <<>>)]
    /\ UNCHANGED <<session_state, authenticated, ads_sdk, env_user_id, cleared, now, calls, logs,
                   stats, schema>>

\* A function decorated with @audit_log(operation_type, resource_type) is called with
\* args and kwargs; the function itself raises func_raised or returns func_result.
WrappedCall(operation_type, resource_type, args, kwargs, func_raised, func_result, db1, db2) ==
    /\ Writes < MaxCalls
    /\ LET out == wrapper(operation_type, resource_type, "func", args, kwargs,
                          Ran(Current, func_raised, func_result),
                          Effective(db1, schema), Effective(db2, schema))
       IN  /\ Leave(out.st)
           /\ calls' = Append(calls, Call("wrapper", args, kwargs, NoEntry, func_raised,
                                          func_result, out.raised, out.result,
                                          NewIds(Current, out.st)))
    /\ UNCHANGED <<authenticated, ads_sdk, env_user_id, cleared, threads, now, logs, stats, schema>>

\* The dashboard calls an audited manager method (campaign_manager.create_campaign):
\* the managers exist only while connected, and carry the customer id of the connection.
ManagerCall(vendor, db0, db1, db2) ==
    /\ Writes < MaxCalls
    /\ authenticated /\ ads_sdk
    /\ LET kwargs == DictV(<<Item(StrV("campaign_name"), StrV("Sale"))>>)
           body == manager_body(Current, vendor, session_state["customer_id"],
                                Effective(db0, schema))
           out == wrapper("CREATE", "CAMPAIGN", "create_campaign", <<"self">>, kwargs,
                          body, Effective(db1, schema), Effective(db2, schema))
       IN  /\ Leave(out.st)
           /\ calls' = Append(calls, Call("manager", <<"self">>, kwargs, NoEntry, body.raised,
                                          body.result, out.raised, out.result,
                                          NewIds(Current, out.st)))
    /\ UNCHANGED <<authenticated, ads_sdk, env_user_id, cleared, threads, now, logs, stats, schema>>

\* The dashboard or a script calls a mutating method of a manager, positionally.
MutatingCall(method, vendor) ==
    /\ Writes < MaxCalls
    /\ authenticated /\ ads_sdk
    /\ LET out == manager_method(Current, method, vendor, session_state["customer_id"],
                                 Effective("ok", schema))
       IN  /\ Leave(out.st)
           /\ calls' = Append(calls, Call(method.name, <<"self">>, DictV(<<>>), NoEntry,
                                          vendor.raised, returned_value(method, vendor),
                                          out.raised, out.result, NewIds(Current, out.st)))
    /\ UNCHANGED <<authenticated, ads_sdk, env_user_id, cleared, threads, now, logs, stats, schema>>

\* A direct call of audit_logger.log_error(operation_type, resource_type, function_name,
\* error, parameters).
LogErrorCall(operation_type, resource_type, error, parameters, db) ==
    /\ Writes < MaxCalls
    /\ \E handling \in BOOLEAN :
          LET out == log_error(Current, operation_type, resource_type, "func", error,
                               parameters, handling, Effective(db, schema))
          IN  /\ Leave(out.st)
              /\ calls' = Append(calls, Call("log_error", <<>>, DictV(<<>>), NoEntry, error,
                                             NoRes, out.raised, NoRes, NewIds(Current, out.st)))
    /\ UNCHANGED <<authenticated, ads_sdk, env_user_id, cleared, threads, now, logs, stats, schema>>

\* audit_logger.init_database() called again on the store file.
InitDatabaseCall ==
    /\ Inits < MaxInits
    /\ LET out == init_database(Current, schema)
       IN  /\ Leave(out.st)
           /\ schema' = out.schema
           /\ calls' = Append(calls, Call("init_database", <<>>, DictV(<<>>), NoEntry, NoExc,
                                          NoRes, out.raised, NoRes, NewIds(Current, out.st)))
    /\ UNCHANGED <<authenticated, ads_sdk, env_user_id, cleared, threads, now, logs, stats>>

\* audit_logs_page with 'Clear All Audit Logs' clicked: the page is rendered down to the
\* button; the first click asks for confirmation, the next one deletes, clears the
\* confirmation and reruns the page. A DELETE that fails is reported and changes nothing.
ClearConfirmed(ss) == Has(ss, "confirm_clear_logs") /\ ss["confirm_clear_logs"] = "True"

\* The clear-all click with the reset of the confirmation left out.
clear_all_audit_logs_keeping_confirmation(st, db) ==
    LET ss == page_render(st.session_state)
    IN  IF ClearConfirmed(ss)
        THEN IF db = "ok" THEN clear_all(State(ss, st.audit_logs, st.seq))
                          ELSE State(ss, st.audit_logs, st.seq)
        ELSE State(Put(ss, "confirm_clear_logs", "True"), st.audit_logs, st.seq)

clear_all_audit_logs(st, db) ==
    LET ss == page_render(st.session_state)
    IN  IF ClearConfirmed(ss)
        THEN IF db = "ok"
             THEN clear_all(State(page_render(Put(ss, "confirm_clear_logs", "False")),
                                  st.audit_logs, st.seq))
             ELSE State(ss, st.audit_logs, st.seq)
        ELSE State(Put(ss, "confirm_clear_logs", "True"), st.audit_logs, st.seq)

ClearAllAuditLogs(db) ==
    /\ authenticated
    /\ Leave(clear_all_audit_logs(Current, db))
    /\ cleared' = IF ClearConfirmed(session_state) /\ db = "ok" THEN seq ELSE cleared
    /\ UNCHANGED <<authenticated, ads_sdk, env_user_id, threads, now, calls, logs, stats, schema>>

\* audit_logger.get_operation_stats().
GetOperationStats ==
    /\ \E result \in get_operation_stats(audit_logs, now) :
          stats' = Measured(TRUE, audit_logs, now, result)
    /\ UNCHANGED <<session_state, authenticated, ads_sdk, env_user_id, cleared, threads, now, audit_logs, seq,
                   calls, logs, schema>>

\* audit_logger.get_audit_logs(limit, user_id, ..., end_date).
GetAuditLogs(limit, f) ==
    /\ \E tie \in TieOrders(f) :
          LET raised == get_audit_logs_raises(audit_logs, limit, f, tie)
          IN  logs' = Queried(TRUE, limit, f, audit_logs,
                              IF raised = NoExc THEN get_audit_logs(audit_logs, limit, f, tie)
                              ELSE <<>>,
                              raised)
    /\ UNCHANGED <<session_state, authenticated, ads_sdk, env_user_id, cleared, threads, now, audit_logs, seq, calls, stats, schema>>

\* ---------------------------------------------------------------- inputs

CustomerIds == {"123"}

UserTexts == {"", "alice"}

Campaign == "customers/123/campaigns/456"

\* Exceptions a wrapped function raises: a plain one, one with a `code`, and vendor
\* errors whose sub-errors carry a mapping, a protobuf enum wrapper (no .get), a
\* location json cannot serialize, or no sub-error at all.
Boom == PlainExc("ValueError", "boom")

NotFound == Exc("HTTPError", "not found", TRUE, "404", FALSE, <<>>)

InvalidArgument == DictV(<<Item(StrV("name"), StrV("INVALID_ARGUMENT"))>>)

\* str() of a vendor error repeats the message of its first sub-error.
VendorError(message, errors) == Exc("GoogleAdsException", message, FALSE, PyNone, TRUE, errors)

VendorMapped ==
    VendorError("name is required", <<SubError(InvalidArgument, StrV("name is required"), NoneV)>>)

VendorProto ==
    VendorError("name is required", <<SubError(ObjV("ErrorCode"), StrV("name is required"), NoneV)>>)

VendorLocation ==
    VendorError("name is required",
                <<SubError(InvalidArgument, StrV("name is required"), ObjV("ErrorLocation"))>>)

VendorEmpty == VendorError("", <<>>)

Raised == {Boom, NotFound, VendorMapped, VendorProto, VendorLocation, VendorEmpty}

\* Results a wrapped function returns.
Response(results, n, first) == Res("obj", "", results, n, first)

Results ==
    {StrRes(Campaign), StrRes("456"), Res("bool", "True", "absent", 0, PyNone),
     Res("list", "['a', 'b']", "absent", 0, PyNone),
     Response("list", 1, Campaign), Response("list", 2, PyNone), Response("empty", 0, PyNone),
     Response("None", 0, PyNone), Response("nolen", 0, PyNone)}

VendorOutcomes == {Answered(Campaign), Failed(VendorMapped), Failed(VendorProto)}

Kw(items) == DictV(items)

Named == Item(StrV("campaign_name"), StrV("Sale"))

\* Keyword arguments of a wrapped call.
KwargsChoices ==
    {Kw(<<>>),
     Kw(<<Named>>),
     Kw(<<Named, Item(StrV("password"), StrV("hunter2"))>>),
     Kw(<<Named, Item(StrV("password"), StrV("letmein"))>>),
     Kw(<<Item(StrV("token"), StrV("tok-1")), Named>>),
     Kw(<<Item(StrV("client"), ObjV("GoogleAdsClient")), Item(StrV("service"), ObjV("CampaignService"))>>),
     Kw(<<Named, Item(StrV("client_secret"), StrV("s3cr3t")), Item(StrV("refresh_token"), StrV("1//r"))>>)}

\* Positional arguments of a wrapped call: self, then a password passed positionally.
ArgsChoices == {<<>>, <<"self">>, <<"self", "hunter2">>, <<"self", "letmein">>}

\* A direct log_operation with the given parameters and result_data.
Created(parameters, result_data) ==
    Entry("CREATE", "CAMPAIGN", "create_campaign", parameters, Campaign, "SUCCESS",
          result_data, NullMsg, PyNone, PyNone, PyNone, 5)

ParameterChoices ==
    {NoneV, DictV(<<>>), DictV(<<Named>>), DictV(<<Item(IntV("1"), StrV("a"))>>),
     DictV(<<Item(StrV("a"), DictV(<<Item(StrV("b"), ListV(<<>>))>>))>>)}

ResultDataChoices ==
    {NoneV, IntV("0"), FalseV, StrV(""), ListV(<<>>), DictV(<<Item(StrV("resource_count"), IntV("1"))>>),
     ListV(<<StrV("x"), IntV("2")>>)}

RoundTripEntries ==
    {Created(p, DictV(<<Item(StrV("resource_count"), IntV("1"))>>)) : p \in ParameterChoices}
    \cup {Created(DictV(<<Named>>), r) : r \in ResultDataChoices}

Plain == Created(DictV(<<Named>>), NoneV)

QueryFilters == {NoFilters, Filters(PyNone, PyNone, PyNone, "CAMPAIGN", NoDate, NoDate)}

\* The default limit of get_audit_logs.
DefaultLimit == 100

\* Direct log_operation calls with every combination of a result_status, an
\* error_message and a result_data.
DirectStatuses == {"SUCCESS", "ERROR", "PENDING", PyNone}

DirectEntries ==
    {Entry("CREATE", "CAMPAIGN", "create_campaign", DictV(<<Named>>), Campaign, status,
           result_data, error_message, PyNone, PyNone, PyNone, 5) :
        status \in DirectStatuses,
        result_data \in {NoneV, DictV(<<Item(StrV("resource_count"), IntV("1"))>>)},
        error_message \in {NullMsg, Msg("quota exceeded", SqlNull)}}

\* Entries of two resource types, and the filters and limits they are queried with:
\* each equality filter, second-precise date bounds, and the date-only bounds the
\* dashboard passes for the day the entries are written on.
AdGroupUpdated ==
    Entry("UPDATE", "AD_GROUP", "update_ad_group", DictV(<<Named>>), PyNone, "SUCCESS",
          NoneV, NullMsg, PyNone, PyNone, PyNone, 5)

Today == DayOf(0)

FilterChoices ==
    {NoFilters,
     Filters(PyNone, PyNone, PyNone, "CAMPAIGN", NoDate, NoDate),
     Filters(PyNone, PyNone, "UPDATE", PyNone, NoDate, NoDate),
     Filters("env_user", "unknown", PyNone, PyNone, NoDate, NoDate),
     Filters(PyNone, PyNone, PyNone, PyNone, DateTimeText(1), NoDate),
     Filters(PyNone, PyNone, PyNone, PyNone, DateTimeText(0), DateTimeText(0)),
     Filters(PyNone, PyNone, PyNone, PyNone, DateText(Today), NoDate),
     Filters(PyNone, PyNone, PyNone, PyNone, DateText(Today), DateText(Today))}

LimitChoices == {0, 1, DefaultLimit}

\* Store files AuditLogger can be pointed at: none yet, or a table made by this or an
\* earlier version, which lacks any of the columns added since and may lack the
\* indexes, empty or holding an entry written then.
Without(missing) == SelectSeq(AllColumns, LAMBDA c : c \notin missing)

AddedSets == SUBSET {AddedColumns[i] : i \in 1..Len(AddedColumns)}

IndexNames == {Indexes[i].name : i \in 1..Len(Indexes)}

Earlier == Stored(1, 0 - Day, "bob", "123", "session_earlier", Plain)

StoreFile(rows, s, sch) == [seq |-> s, schema |-> sch, rows |-> rows]

StoreFiles ==
    {StoreFile(<<>>, 0, NoTable)}
    \cup {StoreFile(rows, Len(rows), Schema(Without(missing), ixs)) :
            rows \in {<<>>, <<Earlier>>}, missing \in AddedSets, ixs \in {{}, IndexNames}}

\* Store files the dashboard opens its statistics on: an empty table; entries of
\* several ages, more of them successful than failed; and the entries of n users,
\* user k having written k of them, each failing with an error code of its own.
MaxUsers == 11

Hour == 3600

Failure(error_code) ==
    Entry("CREATE", "CAMPAIGN", "create_campaign", DictV(<<Named>>), PyNone, "ERROR", NoneV,
          Msg("quota exceeded", SqlNull), "GoogleAdsException", error_code, StackTrace, NullInt)

Aged ==
    <<Stored(1, 0 - 25 * Hour, "alice", "123", "session_alice", Plain),
      Stored(2, 0 - 25 * Hour, "alice", "123", "session_alice", Failure("QUOTA_ERROR")),
      Stored(3, 0 - Day, "bob", "123", "session_bob", AdGroupUpdated),
      Stored(4, 0 - Hour, "bob", "123", "session_bob", Plain),
      Stored(5, 0 - Hour, "alice", "123", "session_alice", Failure("QUOTA_ERROR"))>>

UserName(k) == "user_" \o ToString(k)

CodeName(k) == "CODE_" \o ToString(k)

RECURSIVE Crowd(_)
Crowd(n) ==
    IF n = 0 THEN <<>>
    ELSE LET before == Crowd(n - 1)
         IN  before \o [i \in 1..n |->
                            Stored(Len(before) + i, 0 - Hour, UserName(n), "123",
                                   "session_" \o ToString(n), Failure(CodeName(n)))]

Histories == {<<>>, Aged} \cup {Crowd(n) : n \in {1, TopUsers, MaxUsers}}

\* Values json.dumps cannot convert: an object handle and a set, as a keyword argument
\* of an audited operation and inside the parameters or result_data of a direct call.
Handle == ObjV("AdGroupCriterion")

LocationSet == ObjV("set")

UnserializableKwargs ==
    {Kw(<<Named, Item(StrV("criterion"), Handle)>>),
     Kw(<<Named, Item(StrV("location_ids"), LocationSet)>>)}

UnserializableEntries ==
    {Created(DictV(<<Named, Item(StrV("location_ids"), LocationSet)>>), NoneV),
     Created(DictV(<<Named>>), DictV(<<Item(StrV("results"), ListV(<<Handle>>))>>))}

\* Store files in which the text of a structured column was written or damaged by
\* another program: cut short, or opening arrays without end.
CutShort == Json("malformed", "{\"campaign_name\": \"Sa", <<>>)

OpenArrays == Json("nested", "[[[[[[[[ ...", <<>>)

Counted == Created(DictV(<<Named>>), DictV(<<Item(StrV("resource_count"), IntV("1"))>>))

Sound(id) == Stored(id, 0 - Hour, "bob", "123", "session_bob", Counted)

Damaged ==
    {<<Sound(1)>>,
     <<[Sound(1) EXCEPT !.parameters = CutShort], Sound(2)>>,
     <<Sound(1), [Sound(2) EXCEPT !.result_data = CutShort]>>,
     <<[Sound(1) EXCEPT !.parameters = CutShort, !.result_data = CutShort]>>,
     <<[Sound(1) EXCEPT !.parameters = OpenArrays], Sound(2)>>}

\* The entry thread t writes.
ThreadEntry(t) == [Plain EXCEPT !.function_name = "operation_" \o ToString(t)]

\* ---------------------------------------------------------------- specifications

\* The session and the dashboard, with audited writes of one fixed entry.
Next ==
    \/ Tick
    \/ \E c \in CustomerIds : Authenticate(c)
    \/ Disconnect
    \/ ViewAuditLogs
    \/ \E t \in UserTexts : UpdateUserID(t)
    \/ LogOperationCall(Plain, "ok")

Spec == Init /\ [][Next]_vars

\* The interceptor around a function that raises, with every behaviour of the store.
NextRaise ==
    \/ \E e \in Raised :
          WrappedCall("CREATE", "CAMPAIGN", <<"self">>, Kw(<<Named>>), e, NoRes, "ok", "ok")
    \/ \E e \in Raised, db \in DbOutcomes \ {"ok"} :
          WrappedCall("CREATE", "CAMPAIGN", <<"self">>, Kw(<<Named>>), e, NoRes, db, db)

SpecRaise == Init /\ [][NextRaise]_vars

\* The interceptor around a function that returns, with every behaviour of the store.
NextReturn ==
    \/ \E r \in Results :
          WrappedCall("CREATE", "CAMPAIGN", <<"self">>, Kw(<<Named>>), NoExc, r, "ok", "ok")
    \/ \E r \in Results, db \in DbOutcomes \ {"ok"} :
          WrappedCall("CREATE", "CAMPAIGN", <<"self">>, Kw(<<Named>>), NoExc, r, db, db)

SpecReturn == Init /\ [][NextReturn]_vars

\* The dashboard calling audited manager methods against the vendor API.
NextManager ==
    \/ \E c \in CustomerIds : Authenticate(c)
    \/ Disconnect
    \/ \E v \in VendorOutcomes : ManagerCall(v, "ok", "ok", "ok")
    \/ \E v \in VendorOutcomes, db \in DbOutcomes \ {"ok"} : ManagerCall(v, db, db, db)

SpecManager == Init /\ [][NextManager]_vars

\* The interceptor's parameter snapshot: every choice of arguments.
NextRedact ==
    \/ \E kw \in KwargsChoices :
          WrappedCall("CREATE", "CAMPAIGN", <<"self">>, kw, NoExc, StrRes(Campaign), "ok", "ok")
    \/ \E args \in ArgsChoices :
          WrappedCall("UPDATE", "CAMPAIGN", args, Kw(<<Named>>), Boom, NoRes, "ok", "ok")

SpecRedact == Init /\ [][NextRedact]_vars

\* The record store: writes of structured values, the clock, and queries.
NextStore ==
    \/ Tick
    \/ \E a \in RoundTripEntries : LogOperationCall(a, "ok")
    \/ \E f \in QueryFilters : GetAuditLogs(DefaultLimit, f)

SpecStore == Init /\ [][NextStore]_vars

\* Every public way of writing an entry: the interceptor around a function that returns
\* or raises, log_error, and log_operation called directly.
NextPaths ==
    \/ \E r \in {StrRes(Campaign), Response("empty", 0, PyNone)} :
          WrappedCall("CREATE", "CAMPAIGN", <<"self">>, Kw(<<Named>>), NoExc, r, "ok", "ok")
    \/ \E e \in Raised :
          WrappedCall("CREATE", "CAMPAIGN", <<"self">>, Kw(<<Named>>), e, NoRes, "ok", "ok")
    \/ \E e \in {Boom, NotFound, VendorMapped}, p \in {NoneV, DictV(<<Named>>)} :
          LogErrorCall("API_CALL", "GOOGLE_ADS_API", e, p, "ok")
    \/ \E a \in DirectEntries : LogOperationCall(a, "ok")

SpecPaths == Init /\ [][NextPaths]_vars

\* The life of a store file: entries written by direct and audited calls,
\* re-initialization and the dashboard's bulk clear.
NextLife ==
    \/ \E c \in CustomerIds : Authenticate(c)
    \/ LogOperationCall(Plain, "ok")
    \/ \E v \in {Answered(Campaign), Failed(VendorMapped)} : ManagerCall(v, "ok", "ok", "ok")
    \/ InitDatabaseCall
    \/ \E db \in {"ok", "insert_fail"} : ClearAllAuditLogs(db)

SpecLife == Init /\ [][NextLife]_vars

\* Everything that touches the store: an audited manager call whose error goes through
\* handle_exception, log_error and log_operation, init_database, the query, the
\* statistics, and the bulk clear.
NextFrame ==
    \/ \E c \in CustomerIds : Authenticate(c)
    \/ ManagerCall(Failed(VendorMapped), "ok", "ok", "ok")
    \/ InitDatabaseCall
    \/ ClearAllAuditLogs("ok")
    \/ GetAuditLogs(DefaultLimit, NoFilters)
    \/ GetOperationStats

SpecFrame == Init /\ [][NextFrame]_vars

\* Filtered and limited queries over entries written at different seconds.
NextQuery ==
    \/ Tick
    \/ \E a \in {Plain, AdGroupUpdated} : LogOperationCall(a, "ok")
    \/ \E limit \in LimitChoices, f \in FilterChoices : GetAuditLogs(limit, f)

SpecQuery == Init /\ [][NextQuery]_vars

\* AuditLogger constructed and re-initialized over any store file, and written to.
InitSchema == \E file \in StoreFiles : Start(file.rows, file.seq, file.schema)

NextSchema ==
    \/ InitDatabaseCall
    \/ LogOperationCall(Plain, "ok")

SpecSchema == InitSchema /\ [][NextSchema]_vars

\* The statistics of the dashboard, read over a store file with a history while
\* entries are written and time passes.
InitStats == \E rows \in Histories : Start(rows, Len(rows), CurrentSchema)

NextStats ==
    \/ Tick
    \/ \E a \in {Plain, Failure("QUOTA_ERROR")} : LogOperationCall(a, "ok")
    \/ GetOperationStats

SpecStats == InitStats /\ [][NextStats]_vars

\* Every mutating method of the managers, called while connected.
NextMethods ==
    \/ \E c \in CustomerIds : Authenticate(c)
    \/ \E method \in MutatingMethods, v \in {Answered(Campaign), Failed(VendorMapped)} :
          MutatingCall(method, v)

SpecMethods == Init /\ [][NextMethods]_vars

\* Errors of every shape recorded over a healthy store: passed to log_error, raised
\* inside the interceptor, and raised by the vendor inside an audited manager method.
VendorErrors == {VendorMapped, VendorProto, VendorLocation, VendorEmpty}

NextErrors ==
    \/ \E c \in CustomerIds : Authenticate(c)
    \/ \E e \in Raised : LogErrorCall("API_CALL", "GOOGLE_ADS_API", e, DictV(<<Named>>), "ok")
    \/ \E e \in Raised :
          WrappedCall("CREATE", "CAMPAIGN", <<"self">>, Kw(<<Named>>), e, NoRes, "ok", "ok")
    \/ \E e \in VendorErrors : ManagerCall(Failed(e), "ok", "ok", "ok")

SpecErrors == Init /\ [][NextErrors]_vars

\* Audited operations and direct writes whose values json can and cannot convert.
NextSerialize ==
    \/ \E kw \in {Kw(<<Named>>)} \cup UnserializableKwargs :
          WrappedCall("CREATE", "CAMPAIGN", <<"self">>, kw, NoExc, StrRes(Campaign), "ok", "ok")
    \/ \E a \in {Plain} \cup UnserializableEntries : LogOperationCall(a, "ok")
    \/ GetAuditLogs(DefaultLimit, NoFilters)

SpecSerialize == Init /\ [][NextSerialize]_vars

\* Queries over a store file with damaged entries, while entries are written.
InitDamaged == \E rows \in Damaged : Start(rows, Len(rows), CurrentSchema)

NextDamaged ==
    \/ \E a \in {Plain, AdGroupUpdated} : LogOperationCall(a, "ok")
    \/ \E limit \in {1, DefaultLimit}, f \in QueryFilters : GetAuditLogs(limit, f)

SpecDamaged == InitDamaged /\ [][NextDamaged]_vars

\* Threads writing at the same time while the table is queried and counted.
NextThreads ==
    \/ Tick
    \/ \E t \in Threads : ThreadConnect(t)
    \/ \E t \in Threads : ThreadInsert(t, ThreadEntry(t))
    \/ \E t \in Threads : ThreadLockedOut(t)
    \/ \E t \in Threads : ThreadCommit(t)
    \/ GetAuditLogs(DefaultLimit, NoFilters)
    \/ GetOperationStats

SpecThreads == Init /\ [][NextThreads]_vars

\* The audit logs page over a session: clicks of 'Clear All Audit Logs' with a DELETE
\* that succeeds or fails, between the other interactions of the dashboard and
\* writes to the store.
NextClear ==
    \/ \E c \in CustomerIds : Authenticate(c)
    \/ Disconnect
    \/ ViewAuditLogs
    \/ \E t \in UserTexts : UpdateUserID(t)
    \/ LogOperationCall(Plain, "ok")
    \/ \E db \in {"ok", "insert_fail"} : ClearAllAuditLogs(db)

SpecClear == Init /\ [][NextClear]_vars

\* Direct writes that succeed and that fail at each point of log_operation: the
\* connection, the customer id of a disconnected session, an operation type of None,
\* json.dumps, and the INSERT.
Untyped == [Plain EXCEPT !.operation_type = PyNone]

AppendEntries == {Plain, Untyped} \cup UnserializableEntries

NextAppend ==
    \/ Tick
    \/ \E c \in CustomerIds : Authenticate(c)
    \/ Disconnect
    \/ \E a \in AppendEntries, db \in DbOutcomes : LogOperationCall(a, db)

SpecAppend == Init /\ [][NextAppend]_vars

\* ---------------------------------------------------------------- claims

\* The rows the store holds with an id of ids.
RowsOf(ids) == {audit_logs[i] : i \in {j \in 1..Len(audit_logs) : audit_logs[j].id \in ids}}

WrapperCalls == {calls[i] : i \in {j \in 1..Len(calls) : calls[j].op = "wrapper"}}

\* The text m occurs in a stored message: it is the message, or a string of its JSON part.
MsgContains(em, m) == m = "" \/ em.text = m \/ m \in JsonStrings(em.json)

\* C1: a wrapped operation that raises E makes the wrapper raise E itself, and the call
\* leaves exactly one new entry, with result_status "ERROR" and an error_message that
\* contains E's message.
C1_ErrorReraised ==
    \A c \in WrapperCalls :
        c.func_raised # NoExc =>
            /\ c.raised = c.func_raised
            /\ Cardinality(c.ids) = 1
            /\ \A r \in RowsOf(c.ids) :
                  r.result_status = "ERROR" /\ MsgContains(r.error_message, c.func_raised.message)
            /\ RowsOf(c.ids) # {}

\* C2: a wrapped operation that returns R makes the wrapper return R and raise nothing,
\* whatever the shape of R and whatever the store does, and the call leaves no ERROR entry.
C2_SuccessReturned ==
    \A c \in WrapperCalls :
        c.func_raised = NoExc =>
            /\ c.raised = NoExc
            /\ c.returned = c.func_result
            /\ \A r \in RowsOf(c.ids) : r.result_status # "ERROR"

AuditedCalls == {calls[i] : i \in {j \in 1..Len(calls) : calls[j].op \in {"wrapper", "manager"}}}

\* C3: every invocation of an audited operation adds exactly one entry, SUCCESS when it
\* returns and ERROR when it raises, also when the vendor raises and the manager
\* converts the error with handle_exception.
C3_ExactlyOneEntry ==
    \A c \in AuditedCalls :
        /\ Cardinality(c.ids) = 1
        /\ RowsOf(c.ids) # {}
        /\ \A r \in RowsOf(c.ids) :
              r.result_status = (IF c.raised = NoExc THEN "SUCCESS" ELSE "ERROR")

\* The four names of P3.
ExactNames == {"password", "token", "client", "service"}

\* The keys of a stored JSON object.
JsonKeys(t) == IF t.tag = "object" THEN {t.kids[i].k : i \in 1..Len(t.kids)} ELSE {}

\* Two calls that differ at most in the values of parameters of those names, passed by
\* keyword or, after self, by position.
DifferOnlyInSensitive(c1, c2) ==
    /\ Len(c1.args) = Len(c2.args)
    /\ c1.args # <<>> => Head(c1.args) = Head(c2.args)
    /\ Len(c1.kwargs.kids) = Len(c2.kwargs.kids)
    /\ \A i \in 1..Len(c1.kwargs.kids) :
          /\ c1.kwargs.kids[i].k = c2.kwargs.kids[i].k
          /\ c1.kwargs.kids[i].k.lit \notin ExactNames => c1.kwargs.kids[i].v = c2.kwargs.kids[i].v

\* C4: the parameters persisted for a wrapped call hold neither the key nor the value of
\* an argument named password, token, client or service, and two calls that differ only
\* in such a value persist the same parameters.
C4_Redacted ==
    /\ \A c \in WrapperCalls : \A r \in RowsOf(c.ids) :
          /\ \A i \in 1..Len(c.kwargs.kids) :
                c.kwargs.kids[i].k.lit \in ExactNames =>
                    /\ c.kwargs.kids[i].k.lit \notin JsonKeys(r.parameters)
                    /\ c.kwargs.kids[i].v.lit \notin JsonStrings(r.parameters)
          /\ \A i \in 2..Len(c.args) : c.args[i] \notin JsonStrings(r.parameters)
    /\ \A c1, c2 \in WrapperCalls :
          DifferOnlyInSensitive(c1, c2) =>
              \A r1 \in RowsOf(c1.ids), r2 \in RowsOf(c2.ids) : r1.parameters = r2.parameters

\* Two calls persisted their entries, given different passwords and nothing else different.
C4_Witness ==
    \E c1, c2 \in WrapperCalls :
        /\ DifferOnlyInSensitive(c1, c2)
        /\ RowsOf(c1.ids) # {} /\ RowsOf(c2.ids) # {}
        /\ \E i \in 1..Len(c1.kwargs.kids) :
              /\ c1.kwargs.kids[i].k = StrV("password")
              /\ c1.kwargs.kids[i].v # c2.kwargs.kids[i].v

\* Names a denylist of credentials, tokens, secrets and passwords matches.
DenylistNames ==
    {"client", "service", "password", "token", "client_secret", "refresh_token",
     "developer_token", "api_token", "credentials", "secret"}

\* C5: no persisted parameters holds a key that names a credential, token, secret or
\* password.
C5_DenylistRedacted ==
    \A i \in 1..Len(audit_logs) : JsonKeys(audit_logs[i].parameters) \cap DenylistNames = {}

DirectCalls == {calls[i] : i \in {j \in 1..Len(calls) : calls[j].op = "log_operation"}}

\* C6: an entry given to log_operation comes back from a later get_audit_logs whose
\* filters match it, with the operation_type, resource_type, resource_id and
\* result_status passed in and with parameters and result_data equal in structure to
\* the values passed in.
C6_RoundTrip ==
    logs.called =>
        \A c \in DirectCalls :
            \A r \in {logs.stored[i] : i \in 1..Len(logs.stored)} :
                r.id \in c.ids /\ Matches(r, logs.filters) /\ logs.limit >= Len(logs.stored) =>
                    \E i \in 1..Len(logs.result) :
                        LET e == logs.result[i]
                        IN  /\ e.id = r.id
                            /\ e.user_id = r.user_id /\ e.customer_id = r.customer_id
                            /\ e.operation_type = c.entry.operation_type
                            /\ e.resource_type = c.entry.resource_type
                            /\ e.resource_id = c.entry.resource_id
                            /\ e.result_status = c.entry.result_status
                            /\ e.parameters.py = c.entry.parameters
                            /\ e.result_data.py = c.entry.result_data

\* C7: get_audit_logs with no date filter and a limit no smaller than the number of
\* entries returns them by non-increasing timestamp and, within one timestamp, by
\* descending id: the reverse of the order they were inserted in.
C7_ReverseInsertionOrder ==
    logs.called /\ ~DateGiven(logs.filters.start_date) /\ ~DateGiven(logs.filters.end_date)
                /\ logs.limit >= Len(logs.stored) =>
        \A i, j \in 1..Len(logs.result) :
            i < j => /\ logs.result[i].timestamp >= logs.result[j].timestamp
                     /\ logs.result[i].id > logs.result[j].id

NonEmptyString(x) == x \notin {PyNone, ""}

\* C8: in every session state the three resolvers return non-empty strings,
\* get_customer_id "unknown" when no customer id is supplied; every persisted entry has
\* non-empty identity fields and every log_operation persists its entry.
C8_IdentityNonEmpty ==
    /\ NonEmptyString(get_user_id(session_state).ret)
    /\ NonEmptyString(get_customer_id(session_state))
    /\ NonEmptyString(get_session_id(session_state).ret)
    /\ ~authenticated => get_customer_id(session_state) = "unknown"
    /\ \A i \in 1..Len(audit_logs) :
          /\ NonEmptyString(audit_logs[i].user_id)
          /\ NonEmptyString(audit_logs[i].customer_id)
          /\ NonEmptyString(audit_logs[i].session_id)
    /\ \A c \in DirectCalls : c.ids # {}

EnvSet == env_user_id \notin {PyNone, ""}

\* What precedence asks of a get_user_id call in the current state.
PrecedenceKept ==
    LET r == get_user_id(session_state)
    IN  /\ Has(session_state, "user_id") => r.ret = session_state["user_id"]
        /\ ~Has(session_state, "user_id") /\ EnvSet => r.ret = env_user_id
        /\ ~Has(session_state, "user_id") /\ ~EnvSet =>
              /\ Has(session_state, "generated_user_id") =>
                    r.ret = session_state["generated_user_id"]
              /\ ~Has(session_state, "generated_user_id") =>
                    /\ r.ret = "user_" \o ToString(now)
                    /\ Has(r.ss, "generated_user_id")
                    /\ r.ss["generated_user_id"] = r.ret

\* Once generated, the id is what a call without override and configured identity
\* returns after any step, a passing second included.
GeneratedKept ==
    Has(session_state, "generated_user_id") =>
        /\ Has(session_state', "generated_user_id")
        /\ session_state'["generated_user_id"] = session_state["generated_user_id"]
        /\ ~Has(session_state', "user_id") /\ ~EnvSet' =>
              get_user_id(session_state)'.ret = session_state["generated_user_id"]

\* C9: get_user_id returns the session's override if set, else GOOGLE_ADS_USER_ID if
\* set, else a user_<epoch_seconds> generated by the first such call and returned
\* unchanged by every later call, whatever time has passed.
C9_Precedence == [](PrecedenceKept) /\ [][GeneratedKept]_vars

\* A generated id is cached and a second has passed since; nothing overrides it.
C9_Witness ==
    /\ Has(session_state, "generated_user_id")
    /\ session_state["generated_user_id"] = "user_0"
    /\ now = 1
    /\ ~Has(session_state, "user_id") /\ ~EnvSet
    /\ get_user_id(session_state).ret = "user_0"

\* C10 as stated: entries of one session_id carry one user_id and one customer_id, and
\* the session_id is the one the session keeps.
C10_ContextReused ==
    \A i, j \in 1..Len(audit_logs) :
        audit_logs[i].session_id = audit_logs[j].session_id =>
            /\ audit_logs[i].user_id = audit_logs[j].user_id
            /\ audit_logs[i].customer_id = audit_logs[j].customer_id

\* Every entry carries the session id the session holds.
SessionIdCarried ==
    \A i \in 1..Len(audit_logs) :
        /\ Has(session_state, "session_id")
        /\ audit_logs[i].session_id = session_state["session_id"]
        /\ get_session_id(session_state).ret = audit_logs[i].session_id

\* A session id, once generated, is kept by every step.
SessionIdKept ==
    Has(session_state, "session_id") =>
        /\ Has(session_state', "session_id")
        /\ session_state'["session_id"] = session_state["session_id"]

\* C10: the session_id get_session_id returns never changes once generated, across every
\* interleaving of writes with Update User ID, authenticate and Disconnect, and every
\* entry of the session carries it; user_id and customer_id are those resolved when the
\* entry is written, so entries of one session_id may differ in them.
C10_SessionStable == [](SessionIdCarried) /\ [][SessionIdKept]_vars

\* Two entries of one session written before and after the user id was changed.
C10_Witness ==
    \E i, j \in 1..Len(audit_logs) :
        /\ audit_logs[i].session_id = audit_logs[j].session_id
        /\ audit_logs[i].user_id # audit_logs[j].user_id
        /\ audit_logs[j].user_id = "alice"

\* C11: every stored entry has a result_status of "SUCCESS" or "ERROR"; error_message,
\* error_type and stack_trace are populated exactly when it is "ERROR", error_code only
\* when it is "ERROR", result_data only when it is "SUCCESS"; whichever public path
\* wrote the entry.
C11_StatusFields ==
    \A i \in 1..Len(audit_logs) :
        LET r == audit_logs[i]
            error == r.result_status = "ERROR"
        IN  /\ r.result_status \in {"SUCCESS", "ERROR"}
            /\ r.error_message # NullMsg <=> error
            /\ r.error_type # PyNone <=> error
            /\ r.stack_trace # PyNone <=> error
            /\ r.error_code # PyNone => error
            /\ r.result_data # SqlNull => r.result_status = "SUCCESS"

\* C12: ids are unique and strictly increasing in insertion order over the life of the
\* store file: an entry's id is greater than the id of every entry inserted before it,
\* re-initializations and bulk clears in between included.
C12_IdsIncrease ==
    /\ \A i, j \in 1..Len(audit_logs) : i < j => audit_logs[i].id < audit_logs[j].id
    /\ \A i, j \in 1..Len(calls) :
          i < j => \A a \in calls[i].ids, b \in calls[j].ids : a < b
    /\ \A i \in 1..Len(audit_logs) : \E j \in 1..Len(calls) : audit_logs[i].id \in calls[j].ids

\* An entry was inserted, all entries were cleared, and an entry was inserted after that.
C12_Witness ==
    \E i, j \in 1..Len(calls) :
        /\ i < j
        /\ calls[i].ids # {} /\ RowsOf(calls[i].ids) = {}
        /\ calls[j].ids # {} /\ RowsOf(calls[j].ids) # {}

\* The rows of before are the first rows of after, field by field.
Kept(before, after) ==
    /\ Len(before) <= Len(after)
    /\ \A i \in 1..Len(before) : after[i] = before[i]

\* A step keeps every stored entry as it is, or it is the confirmed bulk clear, which
\* leaves no entry.
EntriesKept ==
    \/ Kept(audit_logs, audit_logs')
    \/ /\ audit_logs' = <<>>
       /\ Has(session_state, "confirm_clear_logs")
       /\ session_state["confirm_clear_logs"] = "True"
       /\ session_state'["confirm_clear_logs"] = "False"

\* C13: a persisted entry never changes and is never removed by itself: after any
\* log_operation, log_error, audited operation, get_audit_logs, get_operation_stats or
\* init_database every stored entry is still there with the same field values; only the
\* bulk clear removes entries, and it removes all of them.
C13_EntriesImmutable == [][EntriesKept]_vars

\* Entries were written, and then init_database, a second write, a query and the
\* statistics ran over them: they are still the first rows.
C13_Witness ==
    /\ Len(calls) = 3
    /\ calls[1].ids # {} /\ calls[2].op = "init_database" /\ calls[3].ids # {}
    /\ logs.called /\ logs.stored = audit_logs
    /\ stats.called /\ stats.stored = audit_logs
    /\ Len(audit_logs) = 4 /\ audit_logs[1].id \in calls[1].ids

\* What a date bound asks of a timestamp when both ends are inclusive: a date-only bound
\* stands for its whole day.
OnOrAfter(ts, b) == IF b.kind = "date" THEN DayOf(ts) >= b.at ELSE ts >= b.at

OnOrBefore(ts, b) == IF b.kind = "date" THEN DayOf(ts) <= b.at ELSE ts <= b.at

Satisfies(r, f) ==
    /\ f.user_id # PyNone => r.user_id = f.user_id
    /\ f.customer_id # PyNone => r.customer_id = f.customer_id
    /\ f.operation_type # PyNone => r.operation_type = f.operation_type
    /\ f.resource_type # PyNone => r.resource_type = f.resource_type
    /\ f.start_date.kind # "none" => OnOrAfter(r.timestamp, f.start_date)
    /\ f.end_date.kind # "none" => OnOrBefore(r.timestamp, f.end_date)

\* C14: get_audit_logs returns at most `limit` entries, only entries that satisfy every
\* supplied filter (the date bounds inclusive, date-only bounds too), and every such
\* entry while it returns fewer than `limit`.
C14_FilteredAndLimited ==
    logs.called =>
        LET matching == {i \in 1..Len(logs.stored) : Satisfies(logs.stored[i], logs.filters)}
            returned == {logs.result[i].id : i \in 1..Len(logs.result)}
        IN  /\ Len(logs.result) <= logs.limit
            /\ Cardinality(returned) = Len(logs.result)
            /\ returned \subseteq {logs.stored[i].id : i \in matching}
            /\ Len(logs.result) < logs.limit =>
                  \A i \in matching : logs.stored[i].id \in returned

\* The resource id a result has: itself when a string with '/', the resource_name of
\* the first of its non-empty results, else none.
DerivableId(result) ==
    IF result.tag = "str" /\ ContainsSlash(result.lit) THEN result.lit
    ELSE IF result.results \notin {"absent", "empty", "None"} THEN result.first
    ELSE PyNone

\* C15: the entry of a wrapped operation that returned carries the resource id its
\* result has, and none when the result has none; a result without a derivable id is
\* recorded as a success, and the call raises nothing of its own.
C15_ResourceId ==
    \A c \in WrapperCalls :
        c.func_raised = NoExc =>
            /\ c.raised \in {NoExc, OperationalError}
            /\ \A r \in RowsOf(c.ids) :
                  /\ r.result_status = "SUCCESS"
                  /\ r.resource_id = DerivableId(c.func_result)

InitCalls == {calls[i] : i \in {j \in 1..Len(calls) : calls[j].op = "init_database"}}

\* Once init_database has run, the table has each column once, the five indexes, and
\* another run would raise nothing and change nothing.
SchemaComplete ==
    InitCalls # {} =>
        /\ \A c \in InitCalls : c.raised = NoExc
        /\ Cardinality(Columns(schema)) = Len(schema.columns)
        /\ Columns(schema) = {AllColumns[i] : i \in 1..Len(AllColumns)}
        /\ schema.indexes = IndexNames
        /\ init_database(Current, schema) = Initialized(Current, schema, NoExc)

\* A run of init_database keeps the entries and the columns there are, adds exactly the
\* columns that are missing, and after the first run adds nothing.
InitStep ==
    Len(calls') > Len(calls) /\ calls'[Len(calls')].op = "init_database" =>
        /\ audit_logs' = audit_logs /\ seq' = seq
        /\ Kept(schema.columns, schema'.columns)
        /\ Len(schema'.columns) = Cardinality(Columns(schema) \cup Columns(schema'))
        /\ schema.columns # <<>> =>
              Columns(schema') \ Columns(schema) \subseteq {AddedColumns[i] : i \in 1..Len(AddedColumns)}
        /\ InitCalls # {} => schema' = schema

\* C16: init_database never raises, however often it is called; after the first call a
\* further call leaves columns, indexes and entries as they are; over a table of an
\* earlier version it adds exactly the missing ones of error_type, error_code and
\* stack_trace.
C16_InitIdempotent == [](SchemaComplete) /\ [][InitStep]_vars

\* init_database ran twice over a table that lacked error_type and stack_trace and held
\* an entry: both columns were added after the others, the entry is there.
C16_Witness ==
    /\ Inits = 2
    /\ schema.columns = Without({"error_type", "stack_trace"}) \o <<"error_type", "stack_trace">>
    /\ Len(audit_logs) >= 1 /\ audit_logs[1] = Earlier

\* C17: whenever get_operation_stats has run, its total_operations is the number of
\* entries get_audit_logs returns from the same table with no filters and a limit of
\* that count or more.
EnoughLimits(count) == {count, count + 1} \cup {n \in {DefaultLimit} : n >= count}

C17_TotalIsUnfilteredCount ==
    stats.called =>
        \A limit \in EnoughLimits(stats.result.total_operations), tie \in TieOrders(NoFilters) :
            stats.result.total_operations =
                Len(get_audit_logs(stats.stored, limit, NoFilters, tie))

C17_Witness ==
    /\ stats.called
    /\ stats.stored = audit_logs
    /\ stats.result.total_operations >= 2
    /\ \E i \in 1..Len(audit_logs) : audit_logs[i].result_status = "ERROR"
    /\ \E i \in 1..Len(calls) : calls[i].op = "init_database"

\* C18: in the dict get_operation_stats returns, each of operations_by_type,
\* operations_by_resource, status_breakdown, errors_by_type and top_error_codes lists
\* one key for every value its field takes in the table (the error fields: among the
\* ERROR entries), each with the number of those entries, in order of descending count.
Listed(mapping, rows, field) ==
    /\ {mapping[i] : i \in 1..Len(mapping)} = GroupBy(rows, field)
    /\ Len(mapping) = Cardinality(GroupBy(rows, field))

Descending(mapping) ==
    \A i, j \in 1..Len(mapping) : i < j => mapping[i].count >= mapping[j].count

Failures(rows, field) ==
    SelectSeq(rows, LAMBDA r : r.result_status = "ERROR" /\ r[field] # PyNone)

C18_Breakdowns ==
    stats.called =>
        LET r == stats.result
            rows == stats.stored
        IN  /\ Listed(r.operations_by_type, rows, "operation_type")
            /\ Descending(r.operations_by_type)
            /\ Listed(r.operations_by_resource, rows, "resource_type")
            /\ Descending(r.operations_by_resource)
            /\ Listed(r.status_breakdown, rows, "result_status")
            /\ Descending(r.status_breakdown)
            /\ Listed(r.errors_by_type, Failures(rows, "error_type"), "error_type")
            /\ Descending(r.errors_by_type)
            /\ Listed(r.top_error_codes, Failures(rows, "error_code"), "error_code")
            /\ Descending(r.top_error_codes)

\* C19: most_active_users of the dict get_operation_stats returns has at most 10
\* keys, each key with the number of entries of that user_id, in descending order of
\* count, and no user without a key has more entries than a user with one.
UserCount(rows, user_id) == Cardinality({i \in 1..Len(rows) : rows[i].user_id = user_id})

Users(rows) == {rows[i].user_id : i \in 1..Len(rows)}

C19_MostActiveUsers ==
    stats.called =>
        LET users == stats.result.most_active_users
            rows == stats.stored
            included == {users[i].key : i \in 1..Len(users)}
        IN  /\ Len(users) <= 10
            /\ Cardinality(included) = Len(users)
            /\ \A i \in 1..Len(users) : users[i].count = UserCount(rows, users[i].key)
            /\ Descending(users)
            /\ \A u \in Users(rows) \ included, i \in 1..Len(users) :
                  UserCount(rows, u) <= users[i].count

C19_Witness ==
    /\ stats.called
    /\ Cardinality(Users(stats.stored)) > 10
    /\ Len(stats.result.most_active_users) = 10
    /\ Len(calls) > 0
    /\ stats.stored = audit_logs

\* C20: operations_last_24h is the number of entries stamped within the 24 hours
\* before the call (one 25 hours old is not counted, one 1 hour old is), and
\* errors_last_24h the number of ERROR entries among them, so that
\* errors_last_24h <= operations_last_24h <= total_operations.
Age(r) == stats.at - r.timestamp

Recent(rows) == {i \in 1..Len(rows) : Age(rows[i]) <= 24 * Hour}

C20_Last24h ==
    stats.called =>
        LET r == stats.result
            rows == stats.stored
        IN  /\ r.operations_last_24h = Cardinality(Recent(rows))
            /\ r.errors_last_24h =
                  Cardinality({i \in Recent(rows) : rows[i].result_status = "ERROR"})
            /\ \A i \in 1..Len(rows) :
                  /\ Age(rows[i]) = 25 * Hour => i \notin Recent(rows)
                  /\ Age(rows[i]) = Hour => i \in Recent(rows)
            /\ r.errors_last_24h <= r.operations_last_24h
            /\ r.operations_last_24h <= r.total_operations

C20_Witness ==
    /\ stats.called
    /\ stats.stored = audit_logs
    /\ \E i, j \in 1..Len(audit_logs) :
          /\ Age(audit_logs[i]) > 24 * Hour
          /\ audit_logs[i].result_status = "ERROR"
          /\ audit_logs[j].timestamp = stats.at
    /\ 0 < stats.result.errors_last_24h
    /\ stats.result.errors_last_24h < stats.result.operations_last_24h
    /\ stats.result.operations_last_24h < stats.result.total_operations

\* C21: once the confirmed clear has deleted the entries, the statistics and the query
\* taken of the table show only entries inserted since: total_operations is their
\* number, 0 while none was inserted, and get_audit_logs returns them and no other.
InsertedSinceClear == (cleared + 1)..seq

ReturnedIds(result) == {result[i].id : i \in 1..Len(result)}

C21_ClearedGone ==
    /\ (stats.called /\ stats.stored = audit_logs) =>
          stats.result.total_operations = Cardinality(InsertedSinceClear)
    /\ (logs.called /\ logs.stored = audit_logs) =>
          /\ ReturnedIds(logs.result) \subseteq InsertedSinceClear
          /\ (logs.filters = NoFilters /\ logs.limit >= Cardinality(InsertedSinceClear)) =>
                ReturnedIds(logs.result) = InsertedSinceClear

C21_Witness ==
    /\ cleared > 1
    /\ seq > cleared
    /\ stats.called /\ stats.stored = audit_logs
    /\ logs.called /\ logs.stored = audit_logs
    /\ Len(logs.result) = stats.result.total_operations
    /\ stats.result.total_operations > 0

\* C22: a call of get_audit_logs or get_operation_stats leaves the stored entries, the
\* id sequence and the session's identity keys as they were, and what it returns is
\* taken from the table as it is at the call: the count of its entries, and with no
\* filter and a sufficient limit each of its entries, as read back.
ReadStep == logs' # logs \/ stats' # stats

ReadBack(rows) == {LogEntry(rows[i]) : i \in 1..Len(rows)}

ReadOnly ==
    ReadStep =>
        /\ UNCHANGED <<audit_logs, seq, session_state, schema>>
        /\ logs' # logs =>
              /\ logs'.stored = audit_logs
              /\ (logs'.filters = NoFilters /\ logs'.limit >= Len(audit_logs)) =>
                    /\ Len(logs'.result) = Len(audit_logs)
                    /\ {logs'.result[i] : i \in 1..Len(logs'.result)} = ReadBack(audit_logs)
        /\ stats' # stats =>
              /\ stats'.stored = audit_logs
              /\ stats'.result.total_operations = Len(audit_logs)

C22_ReadOnlyUncached == [][ReadOnly]_vars

C22_Witness ==
    /\ logs.called /\ stats.called
    /\ stats.stored # <<>>
    /\ stats.stored # audit_logs
    /\ logs.stored = audit_logs
    /\ cleared > 0
    /\ Len(logs.result) > 0
    /\ Has(session_state, "session_id")

\* C23: every call of a mutating method of the campaign, ad group, keyword,
\* extensions and bidding managers, returned or raised, has left an entry in the log.
MethodNames == {method.name : method \in MutatingMethods}

MethodCalls == {i \in 1..Len(calls) : calls[i].op \in MethodNames}

C23_EveryMutationLogged == \A i \in MethodCalls : calls[i].ids # {}

\* C24: with the store healthy, log_error returns normally for every error shape,
\* handle_exception returns its APIError for every vendor error, and the interceptor
\* raises the very exception the operation raised.
CallsOf(op) == {calls[i] : i \in {j \in 1..Len(calls) : calls[j].op = op}}

C24_RecordingNeverRaises ==
    /\ \A c \in CallsOf("log_error") : c.raised = NoExc
    /\ \A c \in CallsOf("manager") : c.func_raised # NoExc => c.func_raised.type = "APIError"
    /\ \A c \in CallsOf("wrapper") \cup CallsOf("manager") :
          c.func_raised # NoExc => c.raised = c.func_raised

\* C25: an error passed to log_error or raised inside the interceptor leaves an entry
\* decomposed by the three-step policy: with a list of sub-errors, error_code is the
\* code of the first and error_message names the code and message of each; else with
\* a code attribute, error_code is that code and error_message the error's text; else
\* error_code is absent and error_message the error's text. error_type is the type
\* name and stack_trace is recorded in each case.
SubErrorCode(sub) ==
    IF HasGet(sub.error_code) THEN DictGet(sub.error_code, "name", StrV("UNKNOWN")).lit
    ELSE "UNKNOWN"

Decomposed(r, e) ==
    /\ r.result_status = "ERROR"
    /\ r.error_type = e.type
    /\ r.stack_trace = StackTrace
    /\ IF e.has_failure
       THEN /\ e.errors # <<>> => r.error_code = SubErrorCode(e.errors[1])
            /\ \A i \in 1..Len(e.errors) :
                  /\ SubErrorCode(e.errors[i]) \in JsonStrings(r.error_message.json)
                  /\ e.errors[i].message.lit \in JsonStrings(r.error_message.json)
       ELSE /\ r.error_code = (IF e.has_code THEN e.code ELSE PyNone)
            /\ r.error_message.text = e.message

C25_ThreeStepPolicy ==
    \A c \in CallsOf("log_error") \cup CallsOf("wrapper") :
        c.func_raised # NoExc =>
            /\ RowsOf(c.ids) # {}
            /\ \A r \in RowsOf(c.ids) : Decomposed(r, c.func_raised)

\* C26: a call whose parameters or result_data hold a value json cannot convert still
\* leaves its entry, with the operation, resource, function name, resource id and
\* status of the call.
ValuesGiven(c) ==
    IF c.op = "wrapper" THEN {log_params(c.args, c.kwargs)}
    ELSE {c.entry.parameters, c.entry.result_data}

C26_EntryNeverDropped ==
    \A c \in CallsOf("wrapper") \cup CallsOf("log_operation") :
        (\E v \in ValuesGiven(c) : Truthy(v) /\ Unserializable(v)) =>
            /\ Cardinality(c.ids) = 1
            /\ RowsOf(c.ids) # {}
            /\ \A r \in RowsOf(c.ids) :
                  /\ r.result_status = "SUCCESS"
                  /\ r.resource_id = Campaign
                  /\ r.operation_type = "CREATE" /\ r.resource_type = "CAMPAIGN"

\* C27: get_audit_logs raises nothing when a stored parameters or result_data text is
\* not JSON; it returns the entries the query selects, each with a text that is not
\* JSON left as stored and every other text deserialized.
StoredRow(q, id) == CHOOSE r \in {q.stored[i] : i \in 1..Len(q.stored)} : r.id = id

ReturnedAs(field, text) ==
    IF text = SqlNull THEN field.kind = "none"
    ELSE IF NotJson(text) THEN field.kind = "text" /\ field.raw = text
    ELSE field.kind = "value" /\ field.py = Loads(text)

C27_MalformedTolerated ==
    logs.called =>
        /\ logs.raised = NoExc
        /\ \E tie \in TieOrders(logs.filters) :
              LET selected == fetchall(logs.stored, logs.limit, logs.filters, tie)
              IN  /\ Len(logs.result) = Len(selected)
                  /\ \A i \in 1..Len(selected) : logs.result[i].id = selected[i].id
        /\ \A i \in 1..Len(logs.result) :
              LET e == logs.result[i]
                  r == StoredRow(logs, e.id)
              IN  /\ ReturnedAs(e.parameters, r.parameters)
                  /\ ReturnedAs(e.result_data, r.result_data)

\* C28: when every thread's log_operation has finished, the table holds one complete
\* entry of each thread, the ids pairwise distinct, and a query or a count taken in
\* between has seen whole entries only.
Complete(r) ==
    \E t \in Threads :
        r = Stored(r.id, r.timestamp, r.user_id, r.customer_id, r.session_id, ThreadEntry(t))

EntriesOf(t) ==
    {i \in 1..Len(audit_logs) : audit_logs[i].function_name = ThreadEntry(t).function_name}

C28_OneEntryPerCall ==
    /\ (\A t \in Threads : threads[t].pc = "closed") =>
          /\ \A t \in Threads : Cardinality(EntriesOf(t)) = 1
          /\ \A i, j \in 1..Len(audit_logs) : audit_logs[i].id = audit_logs[j].id => i = j
    /\ \A i \in 1..Len(audit_logs) : Complete(audit_logs[i])
    /\ logs.called => \A i \in 1..Len(logs.stored) : Complete(logs.stored[i])
    /\ stats.called => stats.result.total_operations = Len(stats.stored)

\* C29: over clicks of 'Clear All Audit Logs' and the other interactions of the
\* dashboard, entries leave the store only in a step taken while confirm_clear_logs is
\* set, that step empties the store and leaves the flag false; the flag becomes set
\* only in a step that deletes nothing and writes nothing, so the first click never
\* deletes and every deletion uses up the confirmation given before it.
IdsOf(rows) == {rows[i].id : i \in DOMAIN rows}

Deletes == IdsOf(audit_logs) \ IdsOf(audit_logs') # {}

Confirms == ~ClearConfirmed(session_state) /\ ClearConfirmed(session_state')

ClearStep ==
    /\ Deletes => /\ ClearConfirmed(session_state)
                  /\ ~ClearConfirmed(session_state')
                  /\ session_state'["confirm_clear_logs"] = "False"
                  /\ audit_logs' = <<>>
    /\ cleared' # cleared => ClearConfirmed(session_state) /\ ~ClearConfirmed(session_state')
    /\ Confirms => audit_logs' = audit_logs /\ seq' = seq /\ cleared' = cleared

C29_ConfirmThenClear == [][ClearStep]_vars

C29_Witness ==
    /\ cleared > 0
    /\ audit_logs = <<>>
    /\ Has(session_state, "confirm_clear_logs")
    /\ session_state["confirm_clear_logs"] = "False"

\* C30: a call of log_operation leaves the stored entries as they were or appends one
\* entry to them: the entry has a new id, the time of the call, the keyword arguments
\* of that call in its columns (the structured ones as their JSON text), and the user,
\* customer and session ids the session holds at that call, none of the required
\* columns empty; the entries stored before are never changed.
LastCall == calls'[Len(calls')]

WholeEntry(r, a) ==
    /\ r.id = seq' /\ seq' = seq + 1
    /\ r.id \notin IdsOf(audit_logs)
    /\ r.timestamp = now
    /\ r.operation_type = a.operation_type /\ r.resource_type = a.resource_type
    /\ r.resource_id = a.resource_id /\ r.function_name = a.function_name
    /\ r.result_status = a.result_status /\ r.error_message = a.error_message
    /\ r.error_type = a.error_type /\ r.error_code = a.error_code
    /\ r.stack_trace = a.stack_trace /\ r.execution_time_ms = a.execution_time_ms
    /\ ~(Truthy(a.parameters) /\ Unserializable(a.parameters))
    /\ ~(Truthy(a.result_data) /\ Unserializable(a.result_data))
    /\ r.parameters = (IF Truthy(a.parameters) THEN Dumps(a.parameters) ELSE SqlNull)
    /\ r.result_data = (IF Truthy(a.result_data) THEN Dumps(a.result_data) ELSE SqlNull)
    /\ r.session_id = session_state'["session_id"]
    /\ r.customer_id = (IF Has(session_state, "customer_id")
                        THEN session_state["customer_id"] ELSE "unknown")
    /\ r.user_id = (IF Has(session_state, "user_id") THEN session_state["user_id"]
                    ELSE IF env_user_id \notin {PyNone, ""} THEN env_user_id
                    ELSE session_state'["generated_user_id"])
    /\ PyNone \notin {r.user_id, r.customer_id, r.operation_type, r.resource_type,
                       r.function_name}

AppendStep ==
    (Len(calls') = Len(calls) + 1 /\ LastCall.op = "log_operation") =>
        \/ audit_logs' = audit_logs /\ seq' = seq
        \/ /\ Len(audit_logs') = Len(audit_logs) + 1
           /\ SubSeq(audit_logs', 1, Len(audit_logs)) = audit_logs
           /\ WholeEntry(audit_logs'[Len(audit_logs')], LastCall.entry)

C30_OneWholeEntryOrNone == [][AppendStep]_vars

C30_Witness ==
    /\ Len(calls) = 2 /\ Len(audit_logs) = 1
    /\ calls[1].op = "log_operation" /\ calls[1].ids = {audit_logs[1].id}
    /\ calls[2].op = "log_operation" /\ calls[2].ids = {}
    /\ calls[2].entry \in UnserializableEntries

====
